---- MODULE Spec2Model ----
(***************************************************************************)
(* A model of py_omop2neo4j_lpg: the sanitizer (utils.py), the bulk        *)
(* transformer (transformation.py) and the online loader (loading.py).     *)
(*                                                                         *)
(* Text is modelled as a sequence of one-character strings, so that the    *)
(* sanitizers are computed character by character as the code does.        *)
(***************************************************************************)
EXTENDS Integers, Sequences, FiniteSets, Bags, TLC

\* ------------------------------------------------------------------------
\* Bounds of the model
\* ------------------------------------------------------------------------
\* longest text handed to the sanitizers in SanSpec
MaxStrLen == 4
\* most rows over the five source CSV files together
MaxRows == 3
\* most rows of concepts_optimized.csv
MaxConceptRows == 2

\* ------------------------------------------------------------------------
\* Characters and text
\* ------------------------------------------------------------------------
LowerLetters == <<"a","b","c","d","e","f","g","h","i","j","k","l","m",
                  "n","o","p","q","r","s","t","u","v","w","x","y","z">>
UpperLetters == <<"A","B","C","D","E","F","G","H","I","J","K","L","M",
                  "N","O","P","Q","R","S","T","U","V","W","X","Y","Z">>
Digits == {"0","1","2","3","4","5","6","7","8","9"}

IsLower(c) == \E i \in 1..26 : LowerLetters[i] = c
IsUpper(c) == \E i \in 1..26 : UpperLetters[i] = c
\* the character class [A-Za-z0-9]
IsAlnum(c) == IsLower(c) \/ IsUpper(c) \/ c \in Digits
\* the character class [A-Za-z0-9_]
IsWordChar(c) == IsAlnum(c) \/ c = "_"

\* str.upper() / toupper() on one character
UpperChar(c) ==
    IF IsLower(c) THEN UpperLetters[CHOOSE i \in 1..26 : LowerLetters[i] = c] ELSE c
\* String.toLowerCase() on one character
LowerChar(c) ==
    IF IsUpper(c) THEN LowerLetters[CHOOSE i \in 1..26 : UpperLetters[i] = c] ELSE c

DigitSeq == <<"0","1","2","3","4","5","6","7","8","9">>

RECURSIVE toInteger(_)
\* toInteger(text) of a text of decimal digits
toInteger(t) ==
    IF t = <<>> THEN 0
    ELSE 10 * toInteger(SubSeq(t, 1, Len(t) - 1))
         + ((CHOOSE i \in 1..10 : DigitSeq[i] = t[Len(t)]) - 1)

UpperStr(s) == [i \in 1..Len(s) |-> UpperChar(s[i])]
LowerStr(s) == [i \in 1..Len(s) |-> LowerChar(s[i])]

RECURSIVE Concat(_)
\* "".join(words)
Concat(words) == IF words = <<>> THEN <<>> ELSE Head(words) \o Concat(Tail(words))

\* all texts over chars of length at most n
TextsUpTo(chars, n) == UNION {[1..k -> chars] : k \in 0..n}

\* ------------------------------------------------------------------------
\* Python values: None, a str, an int
\* ------------------------------------------------------------------------
None == [type |-> "NoneType", text |-> <<>>, int |-> 0]
PyStr(text) == [type |-> "str", text |-> text, int |-> 0]
PyInt(n) == [type |-> "int", text |-> <<>>, int |-> n]

\* the truth value of not s
Not(s) ==
    CASE s.type = "NoneType" -> TRUE
      [] s.type = "str" -> s.text = <<>>
      [] s.type = "int" -> s.int = 0

RECURSIVE Decimal(_)
\* the decimal digits of a natural number
Decimal(n) ==
    IF n < 10 THEN <<DigitSeq[n + 1]>>
    ELSE Append(Decimal(n \div 10), DigitSeq[(n % 10) + 1])

\* str(s)
str(s) ==
    CASE s.type = "NoneType" -> <<"N","o","n","e">>
      [] s.type = "str" -> s.text
      [] s.type = "int" -> IF s.int < 0 THEN <<"-">> \o Decimal(0 - s.int)
                           ELSE Decimal(s.int)

\* ------------------------------------------------------------------------
\* utils.py
\* ------------------------------------------------------------------------
RECURSIVE ReSplitFrom(_, _, _, _)
ReSplitFrom(s, i, words, inSep) ==
    IF i > Len(s) THEN words
    ELSE IF IsAlnum(s[i])
         THEN ReSplitFrom(s, i + 1,
                          [words EXCEPT ![Len(words)] = Append(@, s[i])], FALSE)
         ELSE IF inSep THEN ReSplitFrom(s, i + 1, words, TRUE)
              ELSE ReSplitFrom(s, i + 1, Append(words, <<>>), TRUE)

\* re.split(r"[^A-Za-z0-9]+", s): the pieces between the separator runs, an
\* empty piece before a leading and after a trailing run
ReSplit(s) == ReSplitFrom(s, 1, << <<>> >>, FALSE)

\* word[0].upper() + word[1:] if word else ""
CapitalizeFirst(word) ==
    IF word = <<>> THEN <<>> ELSE <<UpperChar(word[1])>> \o Tail(word)

standardize_label(s) ==
    IF Not(s) THEN <<>>
    ELSE LET words == ReSplit(str(s))
         IN  Concat([i \in 1..Len(words) |-> CapitalizeFirst(words[i])])

RECURSIVE ReSubFrom(_, _, _, _, _)
ReSubFrom(s, i, out, inSep, repl) ==
    IF i > Len(s) THEN out
    ELSE IF IsAlnum(s[i]) THEN ReSubFrom(s, i + 1, Append(out, s[i]), FALSE, repl)
         ELSE IF inSep THEN ReSubFrom(s, i + 1, out, TRUE, repl)
              ELSE ReSubFrom(s, i + 1, Append(out, repl), TRUE, repl)

\* re.sub(r"[^A-Za-z0-9]+", repl, s): every run of other characters becomes repl
ReSub(s, repl) == ReSubFrom(s, 1, <<>>, FALSE, repl)

\* a strip that removes nothing
StripNothing(s) == s

\* str.strip() of a text whose only white space is the blank
Strip(s) ==
    LET keep == {i \in 1..Len(s) : s[i] # " "}
    IN  IF keep = {} THEN <<>>
        ELSE LET lo == CHOOSE i \in keep : \A j \in keep : i <= j
                 hi == CHOOSE i \in keep : \A j \in keep : j <= i
             IN  SubSeq(s, lo, hi)

\* str.replace(" ", "_")
ReplaceBlank(s) == [i \in 1..Len(s) |-> IF s[i] = " " THEN "_" ELSE s[i]]

standardize_reltype(s) ==
    IF Not(s) THEN <<>>
    ELSE UpperStr(ReplaceBlank(Strip(ReSub(str(s), " "))))

\* ------------------------------------------------------------------------
\* loading.py: the text expressions of the loading statements
\* ------------------------------------------------------------------------
RECURSIVE ReplaceNonWordFrom(_, _, _, _)
ReplaceNonWordFrom(s, i, out, inSep) ==
    IF i > Len(s) THEN out
    ELSE IF IsWordChar(s[i]) THEN ReplaceNonWordFrom(s, i + 1, Append(out, s[i]), FALSE)
         ELSE IF inSep THEN ReplaceNonWordFrom(s, i + 1, out, TRUE)
              ELSE ReplaceNonWordFrom(s, i + 1, Append(out, "_"), TRUE)

\* toupper(apoc.text.replace(row.relationship_id, '[^A-Za-z0-9_]+', '_'))
relType(relationship_id) == UpperStr(ReplaceNonWordFrom(relationship_id, 1, <<>>, FALSE))

RECURSIVE BlankSplitFrom(_, _, _, _)
BlankSplitFrom(s, i, words, inSep) ==
    IF i > Len(s) THEN words
    ELSE IF s[i] # " "
         THEN BlankSplitFrom(s, i + 1,
                             [words EXCEPT ![Len(words)] = Append(@, s[i])], FALSE)
         ELSE IF inSep THEN BlankSplitFrom(s, i + 1, words, TRUE)
              ELSE BlankSplitFrom(s, i + 1, Append(words, <<>>), TRUE)

\* apoc.text.upperCamelCase(text): every blank-separated word is lower-cased
\* and then has its first character upper-cased
upperCamelCase(text) ==
    LET words == BlankSplitFrom(ReSub(text, " "), 1, << <<>> >>, FALSE)
    IN  Concat([i \in 1..Len(words) |-> CapitalizeFirst(LowerStr(words[i]))])

\* apoc.text.upperCamelCase(apoc.text.regreplace(row.domain_id,
\*                                               '[^A-Za-z0-9]+', ' '))
standardizedLabel(domain_id) == upperCamelCase(ReSub(domain_id, " "))

\* ------------------------------------------------------------------------
\* State
\* ------------------------------------------------------------------------
VARIABLES
    san,          \* the last sanitizer evaluation: the text and both derivations
    csv,          \* the export directory: the rows of the five source CSV files
    nodes,        \* the graph store: its nodes, in creation order
    edges,        \* the graph store: a bag of [type, start, end] over node positions
    constraints,  \* the labels that carry a uniqueness constraint
    indexes,      \* the names of the indexes that back no constraint
    pc,           \* where the running operation stands
    call,         \* the running (or last) operation of the online loader
    hist,         \* history: operations started, and every finished call
    files,        \* the import directory: the lines of each generated file
    bulk,         \* the calls of prepare_for_bulk_import and the last result
    imported,     \* the result of running the returned bulk-load command
    report        \* the last report of validation.py on the graph store

onlineVars == <<nodes, edges, constraints, indexes, pc, call, hist>>
bulkVars == <<files, bulk, imported>>
vars == <<san, csv, nodes, edges, constraints, indexes, pc, call, hist, files, bulk, imported,
          report>>

\* ------------------------------------------------------------------------
\* Source data
\* ------------------------------------------------------------------------
TConcept == <<"C","o","n","c","e","p","t">>
TDomain == <<"D","o","m","a","i","n">>
TVocabulary == <<"V","o","c","a","b","u","l","a","r","y">>
TStandard == <<"S","t","a","n","d","a","r","d">>
TInDomain == <<"I","N","_","D","O","M","A","I","N">>
TFromVocabulary == <<"F","R","O","M","_","V","O","C","A","B","U","L","A","R","Y">>
THasAncestor == <<"H","A","S","_","A","N","C","E","S","T","O","R">>

DrugDevice == <<"D","r","u","g","/","D","e","v","i","c","e">>
MixedCASE == <<"m","i","x","e","d","C","A","S","E">>
RxNorm == <<"R","x","N","o","r","m">>
MapsTo == <<"m","a","p","s"," ","t","o">>

DomainIds == {DrugDevice, MixedCASE}
VocabularyIds == {RxNorm}
ConceptIds == {<<"1">>, <<"2">>}
StandardFlags == {<<"S">>, <<"s">>, <<>>}
RelationshipIds == {MapsTo}
BatchSizes == {1, 2}

DomainRows == [domain_id : DomainIds]
VocabularyRows == [vocabulary_id : VocabularyIds]
ConceptRows == [concept_id : ConceptIds, domain_id : DomainIds,
                vocabulary_id : VocabularyIds, standard_concept : StandardFlags]
RelationshipRows == [concept_id_1 : ConceptIds, concept_id_2 : ConceptIds,
                     relationship_id : RelationshipIds]
AncestorRows == [descendant_concept_id : ConceptIds, ancestor_concept_id : ConceptIds]

\* the five files the extraction writes into the export directory
CsvFiles ==
    {"domain.csv", "vocabulary.csv", "concepts_optimized.csv",
     "concept_relationship.csv", "concept_ancestor.csv"}

SeqsUpTo(S, n) == UNION {[1..k -> S] : k \in 0..n}

\* ------------------------------------------------------------------------
\* The graph store: what one loading statement does to it
\* ------------------------------------------------------------------------
Graph(ns, es) == [nodes |-> ns, edges |-> es]

\* n more copies of edge e in the bag es
AddEdges(es, e, n) ==
    IF n = 0 THEN es
    ELSE IF e \in DOMAIN es THEN [es EXCEPT ![e] = @ + n] ELSE es @@ (e :> n)

Edge(t, a, b) == [type |-> t, start |-> a, end |-> b]

\* MATCH (d:Domain {domain_id: id}): the positions of the matching nodes
MatchDomain(ns, id) ==
    {i \in 1..Len(ns) : TDomain \in ns[i].labels /\ ns[i].domain_id = id}
MatchVocabulary(ns, id) ==
    {i \in 1..Len(ns) : TVocabulary \in ns[i].labels /\ ns[i].vocabulary_id = id}
MatchConcept(ns, id) ==
    {i \in 1..Len(ns) : TConcept \in ns[i].labels /\ ns[i].concept_id = id}

RECURSIVE AddEdgesTo(_, _, _, _, _)
\* CREATE (c)-[:t]->(x) once for every x of targets, n times each
AddEdgesTo(es, t, c, targets, n) ==
    IF targets = {} THEN es
    ELSE LET x == CHOOSE y \in targets : TRUE
         IN  AddEdgesTo(AddEdges(es, Edge(t, c, x), n), t, c, targets \ {x}, n)

RECURSIVE AddEdgesFrom(_, _, _, _)
\* one edge of type t for every pair of a start and an end node
AddEdgesFrom(es, t, starts, ends) ==
    IF starts = {} THEN es
    ELSE LET x == CHOOSE y \in starts : TRUE
         IN  AddEdgesFrom(AddEdgesTo(es, t, x, ends, 1), t, starts \ {x}, ends)

\* load_domains, one row: CREATE (d:Domain {...})
CreateDomainRow(g, row, cons) ==
    IF TDomain \in cons /\ MatchDomain(g.nodes, row.domain_id) # {}
    THEN [g |-> g, ok |-> FALSE]
    ELSE [g |-> Graph(Append(g.nodes, [labels |-> {TDomain},
                                        domain_id |-> row.domain_id]), g.edges),
          ok |-> TRUE]

\* load_vocabularies, one row: CREATE (v:Vocabulary {...})
CreateVocabularyRow(g, row, cons) ==
    IF TVocabulary \in cons /\ MatchVocabulary(g.nodes, row.vocabulary_id) # {}
    THEN [g |-> g, ok |-> FALSE]
    ELSE [g |-> Graph(Append(g.nodes, [labels |-> {TVocabulary},
                                        vocabulary_id |-> row.vocabulary_id]), g.edges),
          ok |-> TRUE]

\* load_concepts, one row: CREATE the node, add the labels, then MATCH the
\* domain and CREATE IN_DOMAIN, then MATCH the vocabulary and CREATE
\* FROM_VOCABULARY; a MATCH that finds nothing ends the row
CreateConceptRow(g, row, cons) ==
    IF TConcept \in cons /\ MatchConcept(g.nodes, toInteger(row.concept_id)) # {}
    THEN [g |-> g, ok |-> FALSE]
    ELSE LET c == [labels |-> {TConcept, standardizedLabel(row.domain_id)}
                              \cup (IF row.standard_concept = <<"S">>
                                    THEN {TStandard} ELSE {}),
                   concept_id |-> toInteger(row.concept_id),
                   domain_id |-> row.domain_id,
                   vocabulary_id |-> row.vocabulary_id,
                   standard_concept |-> row.standard_concept]
             ns == Append(g.nodes, c)
             ci == Len(ns)
             ds == MatchDomain(ns, row.domain_id)
             vs == MatchVocabulary(ns, row.vocabulary_id)
             e1 == AddEdgesTo(g.edges, TInDomain, ci, ds, 1)
             e2 == AddEdgesTo(e1, TFromVocabulary, ci, vs, Cardinality(ds))
         IN  [g |-> Graph(ns, e2), ok |-> TRUE]

\* a relationship row that fails its statement when an endpoint is missing
CreateRelationshipRowStrict(g, row, cons) ==
    LET starts == MatchConcept(g.nodes, toInteger(row.concept_id_1))
        ends == MatchConcept(g.nodes, toInteger(row.concept_id_2))
    IN  IF starts = {} \/ ends = {} THEN [g |-> g, ok |-> FALSE]
        ELSE [g |-> Graph(g.nodes, AddEdgesFrom(g.edges, relType(row.relationship_id),
                                                starts, ends)),
              ok |-> TRUE]

\* load_relationships, one row: MATCH both concepts, then
\* apoc.create.relationship(c1, relType, {...}, c2)
CreateRelationshipRow(g, row, cons) ==
    [g |-> Graph(g.nodes,
                 AddEdgesFrom(g.edges, relType(row.relationship_id),
                              MatchConcept(g.nodes, toInteger(row.concept_id_1)),
                              MatchConcept(g.nodes, toInteger(row.concept_id_2)))),
     ok |-> TRUE]

\* load_ancestors, one row: MATCH both concepts, CREATE (d)-[:HAS_ANCESTOR]->(a)
CreateAncestorRow(g, row, cons) ==
    [g |-> Graph(g.nodes,
                 AddEdgesFrom(g.edges, THasAncestor,
                              MatchConcept(g.nodes, toInteger(row.descendant_concept_id)),
                              MatchConcept(g.nodes, toInteger(row.ancestor_concept_id)))),
     ok |-> TRUE]

\* get_file_uri(filename) of each loading statement
StatementUri(q) ==
    CASE q = "load_domains" -> "domain.csv"
      [] q = "load_vocabularies" -> "vocabulary.csv"
      [] q = "load_concepts" -> "concepts_optimized.csv"
      [] q = "load_relationships" -> "concept_relationship.csv"
      [] q = "load_ancestors" -> "concept_ancestor.csv"

\* the source file and the row clause of each loading statement
StatementFile(q, src) ==
    CASE q = "load_domains" -> src.domain
      [] q = "load_vocabularies" -> src.vocabulary
      [] q = "load_concepts" -> src.concept
      [] q = "load_relationships" -> src.relationship
      [] q = "load_ancestors" -> src.ancestor

ApplyRow(q, g, row, cons) ==
    CASE q = "load_domains" -> CreateDomainRow(g, row, cons)
      [] q = "load_vocabularies" -> CreateVocabularyRow(g, row, cons)
      [] q = "load_concepts" -> CreateConceptRow(g, row, cons)
      [] q = "load_relationships" -> CreateRelationshipRow(g, row, cons)
      [] q = "load_ancestors" -> CreateAncestorRow(g, row, cons)

RECURSIVE ApplyRows(_, _, _, _, _, _)
\* rows[from..to] in file order, stopping at the first row that fails
ApplyRows(q, g, rows, from, to, cons) ==
    IF from > to THEN [g |-> g, ok |-> TRUE]
    ELSE LET r == ApplyRow(q, g, rows[from], cons)
         IN  IF r.ok THEN ApplyRows(q, r.g, rows, from + 1, to, cons)
             ELSE [g |-> g, ok |-> FALSE]

RECURSIVE InTransactions(_, _, _, _, _, _)
\* CALL { ... } IN TRANSACTIONS OF batch ROWS: every batch commits on its own;
\* a failing batch is rolled back and fails the statement
InTransactions(q, g, rows, from, batch, cons) ==
    IF from > Len(rows) THEN [g |-> g, ok |-> TRUE]
    ELSE LET to == IF from + batch - 1 < Len(rows) THEN from + batch - 1 ELSE Len(rows)
             r == ApplyRows(q, g, rows, from, to, cons)
         IN  IF r.ok THEN InTransactions(q, r.g, rows, to + 1, batch, cons)
             ELSE [g |-> g, ok |-> FALSE]

\* session.run(query) of one loading statement: the graph it leaves and whether
\* it returned (ok) or raised
RunStatement(q, g, src, batch, cons) ==
    LET rows == StatementFile(q, src)
    IN  IF StatementUri(q) \notin src.present THEN [g |-> g, ok |-> FALSE]
        ELSE IF q \in {"load_domains", "load_vocabularies"}
        THEN LET r == ApplyRows(q, g, rows, 1, Len(rows), cons)
             IN  IF r.ok THEN r ELSE [g |-> g, ok |-> FALSE]
        ELSE InTransactions(q, g, rows, 1, batch, cons)

\* the statements with the concept statement moved to the front
get_loading_queries_concepts_first ==
    <<"load_concepts", "load_domains", "load_vocabularies",
      "load_relationships", "load_ancestors">>

\* get_loading_queries(batch_size): the statements in the order returned
get_loading_queries ==
    <<"load_domains", "load_vocabularies", "load_concepts",
      "load_relationships", "load_ancestors">>

\* ------------------------------------------------------------------------
\* Reports on the graph (validation.py reads these; here they are history)
\* ------------------------------------------------------------------------
RECURSIVE BagSum(_, _)
BagSum(es, keys) ==
    IF keys = {} THEN 0
    ELSE LET k == CHOOSE x \in keys : TRUE IN es[k] + BagSum(es, keys \ {k})

\* the number of nodes per label set
NodeCounts(ns) ==
    {<<L, Cardinality({i \in 1..Len(ns) : ns[i].labels = L})>> :
        L \in {ns[i].labels : i \in 1..Len(ns)}}

\* the number of edges per type
EdgeCounts(es) ==
    {<<t, BagSum(es, {e \in DOMAIN es : e.type = t})>> :
        t \in {e.type : e \in DOMAIN es}}

Counts(ns, es) == [nodes |-> NodeCounts(ns), edges |-> EdgeCounts(es)]

\* ------------------------------------------------------------------------
\* loading.py: the operations
\* ------------------------------------------------------------------------
\* most operations started in one behaviour
MaxCalls == 2

NoCall ==
    [op |-> "none", batch_size |-> 0, steps |-> <<>>, issued |-> <<>>,
     outcome |-> "returned", failed |-> "none", error |-> "none",
     driver |-> "none"]

\* the record of a finished call: what was called, how it ended, the statement
\* that failed, and the counts a report on the graph then gives
Done(h, op, failed, g) ==
    [h EXCEPT !.done = Append(@, [op |-> op,
                                  outcome |-> IF failed = "none" THEN "returned"
                                              ELSE "raised",
                                  failed |-> failed,
                                  counts |-> Counts(g.nodes, g.edges)])]

\* a run_load_csv that opens the driver without looking for CSV files
run_load_csv_no_preflight(b) ==
    /\ pc = "idle"
    /\ hist.calls < MaxCalls
    /\ pc' = "clear_database"
    /\ call' = [op |-> "run_load_csv", batch_size |-> b, steps |-> <<>>,
                issued |-> <<>>, outcome |-> "running", failed |-> "none",
                error |-> "none", driver |-> "open"]
    /\ hist' = [hist EXCEPT !.calls = @ + 1]
    /\ UNCHANGED <<report, san, csv, nodes, edges, constraints, indexes, bulkVars>>

\* run_load_csv(batch_size), up to the driver being open: without a CSV file
\* in the export directory it raises click.ClickException before get_driver()
run_load_csv(b) ==
    /\ pc = "idle"
    /\ hist.calls < MaxCalls
    /\ IF csv.present = {}
       THEN /\ pc' = "idle"
            /\ call' = [op |-> "run_load_csv", batch_size |-> 0, steps |-> <<>>,
                        issued |-> <<>>, outcome |-> "raised", failed |-> "none",
                        error |-> "No CSV files found", driver |-> "none"]
            /\ hist' = Done([hist EXCEPT !.calls = @ + 1], "run_load_csv",
                            "preflight", Graph(nodes, edges))
       ELSE /\ pc' = "clear_database"
            /\ call' = [op |-> "run_load_csv", batch_size |-> b, steps |-> <<>>,
                        issued |-> <<>>, outcome |-> "running", failed |-> "none",
                        error |-> "none", driver |-> "open"]
            /\ hist' = [hist EXCEPT !.calls = @ + 1]
    /\ UNCHANGED <<report, san, csv, nodes, edges, constraints, indexes, bulkVars>>

\* a clear_database that drops the constraints and leaves the data
clear_database_keeps_graph ==
    /\ pc = "clear_database"
    /\ constraints' = {}
    /\ indexes' = {}
    /\ call' = [call EXCEPT !.steps = Append(@, "clear_database")]
    /\ pc' = "create_constraints_and_indexes"
    /\ UNCHANGED <<report, san, csv, nodes, edges, hist, bulkVars>>

\* clear_database(driver): drop every constraint, then MATCH (n) DETACH DELETE n
clear_database ==
    /\ pc = "clear_database"
    /\ constraints' = {}
    /\ indexes' = {}
    /\ nodes' = <<>>
    /\ edges' = EmptyBag
    /\ call' = [call EXCEPT !.steps = Append(@, "clear_database")]
    /\ pc' = "create_constraints_and_indexes"
    /\ UNCHANGED <<report, san, csv, hist, bulkVars>>

\* the labels whose key is held by two nodes: CREATE CONSTRAINT fails on them
HasDuplicate(ns, label) ==
    \E i, j \in 1..Len(ns) :
        /\ i < j
        /\ label \in ns[i].labels /\ label \in ns[j].labels
        /\ CASE label = TConcept -> ns[i].concept_id = ns[j].concept_id
             [] label = TDomain -> ns[i].domain_id = ns[j].domain_id
             [] label = TVocabulary -> ns[i].vocabulary_id = ns[j].vocabulary_id

\* a schema step that creates no uniqueness constraint
create_constraints_and_indexes_none ==
    /\ pc = "create_constraints_and_indexes"
    /\ call' = [call EXCEPT !.steps = Append(@, "create_constraints_and_indexes")]
    /\ pc' = "load"
    /\ UNCHANGED <<report, san, csv, nodes, edges, constraints, indexes, hist, bulkVars>>

\* create_constraints_and_indexes(driver), called by run_load_csv
create_constraints_and_indexes ==
    /\ pc = "create_constraints_and_indexes"
    /\ constraints' = constraints \cup {TConcept, TDomain, TVocabulary}
    /\ indexes' = indexes \cup {"index_concept_code", "index_standard_label"}
    /\ call' = [call EXCEPT !.steps = Append(@, "create_constraints_and_indexes")]
    /\ pc' = "load"
    /\ UNCHANGED <<report, san, csv, nodes, edges, hist, bulkVars>>

\* _execute_queries(driver, get_loading_queries(batch_size)) called on its own
execute_queries(b) ==
    /\ pc = "idle"
    /\ hist.calls < MaxCalls
    /\ pc' = "load"
    /\ call' = [op |-> "_execute_queries", batch_size |-> b, steps |-> <<>>,
                issued |-> <<>>, outcome |-> "running", failed |-> "none",
                error |-> "none", driver |-> "open"]
    /\ hist' = [hist EXCEPT !.calls = @ + 1]
    /\ UNCHANGED <<report, san, csv, nodes, edges, constraints, indexes, bulkVars>>

\* the operator deletes the CSV files of the export directory between two
\* operations
remove_export_files ==
    /\ pc = "idle"
    /\ csv.present # {}
    /\ csv' = [csv EXCEPT !.present = {}]
    /\ UNCHANGED <<report, san, onlineVars, bulkVars>>

\* the operator deletes one CSV file of a complete export directory
remove_export_file(f) ==
    /\ pc = "idle"
    /\ csv.present = CsvFiles
    /\ csv' = [csv EXCEPT !.present = @ \ {f}]
    /\ UNCHANGED <<report, san, onlineVars, bulkVars>>

\* the driver when the operation ends: run_load_csv closes it in its finally
\* block, a bare _execute_queries leaves its caller's driver as it is
Closed(op) == IF op = "run_load_csv" THEN "closed" ELSE "open"

\* one turn of the loop with ignore_errors true: a failing statement is logged
\* and the loop goes on to the next one
session_run_ignore_errors ==
    /\ pc = "load"
    /\ LET queries == get_loading_queries
           q == queries[Len(call.issued) + 1]
           r == RunStatement(q, Graph(nodes, edges), csv, call.batch_size, constraints)
           last == Len(call.issued) + 1 = Len(queries)
       IN  /\ nodes' = r.g.nodes
           /\ edges' = r.g.edges
           /\ call' = [call EXCEPT !.issued = Append(@, q),
                                   !.outcome = IF last THEN "returned" ELSE @,
                                   !.failed = IF r.ok THEN @ ELSE q,
                                   !.batch_size = IF last THEN 0 ELSE @]
           /\ pc' = IF last THEN "idle" ELSE "load"
           /\ hist' = IF last THEN Done(hist, call.op, "none", r.g) ELSE hist
    /\ UNCHANGED <<report, san, csv, constraints, indexes, bulkVars>>

\* one turn of the loop of _execute_queries (ignore_errors false): session.run
\* of the next statement; the exception of a failing statement is re-raised
session_run ==
    /\ pc = "load"
    /\ LET queries == get_loading_queries
           q == queries[Len(call.issued) + 1]
           r == RunStatement(q, Graph(nodes, edges), csv, call.batch_size, constraints)
           last == Len(call.issued) + 1 = Len(queries)
       IN  /\ nodes' = r.g.nodes
           /\ edges' = r.g.edges
           /\ IF r.ok
              THEN /\ call' = [call EXCEPT !.issued = Append(@, q),
                                           !.outcome = IF last THEN "returned" ELSE @,
                                           !.batch_size = IF last THEN 0 ELSE @,
                                           !.driver = IF last THEN Closed(call.op)
                                                      ELSE @]
                   /\ pc' = IF last THEN "idle" ELSE "load"
                   /\ hist' = IF last THEN Done(hist, call.op, "none", r.g)
                              ELSE hist
              ELSE /\ call' = [call EXCEPT !.issued = Append(@, q),
                                           !.outcome = "raised", !.failed = q,
                                           !.error = "Neo4jError",
                                           !.batch_size = 0,
                                           !.driver = Closed(call.op)]
                   /\ pc' = "idle"
                   /\ hist' = Done(hist, call.op, q, r.g)
    /\ UNCHANGED <<report, san, csv, constraints, indexes, bulkVars>>

\* ------------------------------------------------------------------------
\* The online loader over every small export directory
\* ------------------------------------------------------------------------
\* no report asked for yet
NoReport == [op |-> "none", arg |-> None, result |-> None]

NoSan == [op |-> "none", arg |-> None, bulk |-> <<>>, online |-> <<>>]

\* every export directory of at most n rows in all, at most m of them concepts
ExportDirs(n, m) ==
    UNION {UNION {UNION {UNION {
        {[present |-> CsvFiles, domain |-> d, vocabulary |-> v, concept |-> c,
          relationship |-> r, ancestor |-> a] :
            a \in SeqsUpTo(AncestorRows, n - Len(c) - Len(d) - Len(v) - Len(r))} :
            r \in SeqsUpTo(RelationshipRows, n - Len(c) - Len(d) - Len(v))} :
            v \in SeqsUpTo(VocabularyRows, n - Len(c) - Len(d))} :
            d \in SeqsUpTo(DomainRows, n - Len(c))} :
            c \in SeqsUpTo(ConceptRows, IF m < n THEN m ELSE n)}

\* one concept with its domain and its vocabulary, and at most one row in each
\* of the two edge files
CompleteDirs ==
    {[present |-> CsvFiles,
      domain |-> <<[domain_id |-> c.domain_id]>>,
      vocabulary |-> <<[vocabulary_id |-> c.vocabulary_id]>>,
      concept |-> <<c>>, relationship |-> r, ancestor |-> a] :
        c \in ConceptRows, r \in SeqsUpTo(RelationshipRows, 1),
        a \in SeqsUpTo(AncestorRows, 1)}

\* a fresh graph store, no operation started, the import directory empty
Fresh ==
    /\ san = NoSan
    /\ nodes = <<>>
    /\ edges = EmptyBag
    /\ constraints = {}
    /\ indexes = {}
    /\ pc = "idle"
    /\ call = NoCall
    /\ hist = [calls |-> 0, done |-> <<>>]
    /\ files = [f \in {"nodes_domain.csv", "nodes_vocabulary.csv", "nodes_concept.csv",
                        "rels_in_domain.csv", "rels_from_vocabulary.csv",
                        "rels_semantic.csv", "rels_ancestor.csv"} |->
                   [exists |-> FALSE, lines |-> <<>>]]
    /\ bulk = [calls |-> 0, chunk_size |-> 0, result |-> "none", command |-> <<>>,
               import_dir |-> FALSE, first |-> files]
    /\ imported = [ran |-> FALSE, ok |-> FALSE, nodes |-> <<>>, edges |-> EmptyBag]
    /\ report = NoReport

Init ==
    /\ csv \in ExportDirs(MaxRows, MaxConceptRows) \cup CompleteDirs
    /\ Fresh

Next ==
    \/ \E b \in BatchSizes : run_load_csv(b)
    \/ clear_database
    \/ create_constraints_and_indexes
    \/ \E b \in BatchSizes : execute_queries(b)
    \/ session_run
    \/ hist.calls < MaxCalls /\ remove_export_files

Spec == Init /\ [][Next]_vars

\* ------------------------------------------------------------------------
\* validation.py: the three reports
\* ------------------------------------------------------------------------
\* the characters of a label or a type, in code point order
CodePoints ==
    <<" ", "/", "0", "1", "2", "3", "4", "5", "6", "7", "8", "9", ":", ";">>
    \o UpperLetters \o <<"_">> \o LowerLetters

ord(c) == CHOOSE i \in 1..Len(CodePoints) : CodePoints[i] = c

RECURSIVE StrLess(_, _)
\* a < b for two Python strings
StrLess(a, b) ==
    IF b = <<>> THEN FALSE
    ELSE IF a = <<>> THEN TRUE
    ELSE IF a[1] = b[1] THEN StrLess(Tail(a), Tail(b))
    ELSE ord(a[1]) < ord(b[1])

RemoveAt(xs, i) == SubSeq(xs, 1, i - 1) \o SubSeq(xs, i + 1, Len(xs))

RECURSIVE sorted(_)
\* sorted(xs) for a list of strings
sorted(xs) ==
    IF xs = <<>> THEN <<>>
    ELSE LET i == CHOOSE k \in 1..Len(xs) :
                      \A j \in 1..Len(xs) : ~StrLess(xs[j], xs[k])
         IN  <<xs[i]>> \o sorted(RemoveAt(xs, i))

RECURSIVE join(_, _)
\* sep.join(xs)
join(sep, xs) ==
    IF xs = <<>> THEN <<>>
    ELSE IF Len(xs) = 1 THEN xs[1]
    ELSE xs[1] \o sep \o join(sep, Tail(xs))

\* a Python dict, a key assigned in it, and the dict built from nothing
PyDict(d) == [type |-> "dict", items |-> d]
EmptyDict == [k \in {} |-> 0]
SetItem(d, k, v) == [x \in DOMAIN d \cup {k} |-> IF x = k THEN v ELSE d[x]]

RECURSIVE LabelLists(_)
\* every list that holds each label of L once
LabelLists(L) ==
    IF L = {} THEN {<<>>}
    ELSE UNION {{<<l>> \o t : t \in LabelLists(L \ {l})} : l \in L}

RECURSIVE Labels(_)
\* labels(n) for each node of ns: Cypher leaves the order of the list open,
\* so each node may list its labels in any order
Labels(ns) ==
    IF ns = <<>> THEN {<<>>}
    ELSE {Append(ls, l) : ls \in Labels(SubSeq(ns, 1, Len(ns) - 1)),
                          l \in LabelLists(ns[Len(ns)].labels)}

RECURSIVE OrderByCountDesc(_)
\* ORDER BY count DESC
OrderByCountDesc(rows) ==
    IF rows = {} THEN <<>>
    ELSE LET r == CHOOSE x \in rows : \A y \in rows : y.count <= x.count
         IN  <<r>> \o OrderByCountDesc(rows \ {r})

\* MATCH (n) WITH labels(n) AS label_combination
\* RETURN label_combination, count(*) AS count ORDER BY count DESC:
\* one row per distinct list, two lists of the same labels in different
\* orders being distinct
NodeCountRows(ls) ==
    OrderByCountDesc(
        {[label_combination |-> l,
          count |-> Cardinality({i \in 1..Len(ls) : ls[i] = l})] :
            l \in {ls[i] : i \in 1..Len(ls)}})

RECURSIVE NodeCountsDict(_)
\* {":".join(sorted(record["label_combination"])): record["count"]
\*  for record in result if record["label_combination"]}: a later record
\* with the key of an earlier one replaces its value
NodeCountsDict(rows) ==
    IF rows = <<>> THEN EmptyDict
    ELSE LET d == NodeCountsDict(SubSeq(rows, 1, Len(rows) - 1))
             record == rows[Len(rows)]
         IN  IF record.label_combination = <<>> THEN d
             ELSE SetItem(d, join(<<":">>, sorted(record.label_combination)),
                          record.count)

\* get_node_counts(driver)
get_node_counts ==
    /\ pc = "idle"
    /\ \E ls \in Labels(nodes) :
           report' = [op |-> "get_node_counts", arg |-> None,
                      result |-> PyDict(NodeCountsDict(NodeCountRows(ls)))]
    /\ UNCHANGED <<san, csv, onlineVars, bulkVars>>

\* a db.relationshipTypes() that lists every type the loader knows, in use or not
relationshipTypes_known(es) ==
    {e.type : e \in DOMAIN es} \cup {TInDomain, TFromVocabulary, THasAncestor}

\* CALL db.relationshipTypes(): the types in use
relationshipTypes(es) == {e.type : e \in DOMAIN es}

\* get_relationship_counts(driver): per type in use,
\* MATCH ()-[:`type`]->() RETURN count(*)
get_relationship_counts ==
    /\ pc = "idle"
    /\ report' = [op |-> "get_relationship_counts", arg |-> None,
                  result |-> PyDict([t \in relationshipTypes(edges) |->
                                BagSum(edges, {e \in DOMAIN edges : e.type = t})])]
    /\ UNCHANGED <<san, csv, onlineVars, bulkVars>>

\* the rows of the query of verify_sample_concept: a Concept node with the
\* id gives a row only if it has an outgoing edge, as the CALL subquery
\* returns no row for a node without one
SampleRows(ns, es, concept_id) ==
    {c \in MatchConcept(ns, concept_id) : \E e \in DOMAIN es : e.start = c}

\* the record verify_sample_concept returns for node c
SampleRecord(ns, es, c) ==
    [concept_id |-> ns[c].concept_id,
     labels |-> sorted(CHOOSE l \in LabelLists(ns[c].labels) : TRUE),
     relationships_summary |->
         [t \in {e.type : e \in {x \in DOMAIN es : x.start = c}} |->
             BagSum(es, {e \in DOMAIN es : e.start = c /\ e.type = t})],
     ancestors_summary |->
         BagSum(es, {e \in DOMAIN es : /\ e.end = c /\ e.type = THasAncestor
                                       /\ TConcept \in ns[e.start].labels})]

\* the concept ids a sample is asked for
SampleIds == 0..3

\* verify_sample_concept(driver, concept_id): .single() gives the first row
\* or None, and a record whose concept_id is falsy counts as not found
verify_sample_concept(concept_id) ==
    /\ pc = "idle"
    /\ LET rows == SampleRows(nodes, edges, concept_id)
           first == CHOOSE c \in rows : \A x \in rows : c <= x
       IN  report' = [op |-> "verify_sample_concept", arg |-> PyInt(concept_id),
                      result |-> IF rows = {} \/ Not(PyInt(nodes[first].concept_id))
                                 THEN None
                                 ELSE PyDict(SampleRecord(nodes, edges, first))]
    /\ UNCHANGED <<san, csv, onlineVars, bulkVars>>

\* the loader's operations, and then one report on the graph they left
ValNext ==
    \/ report = NoReport /\ \E b \in BatchSizes : run_load_csv(b)
    \/ report = NoReport /\ clear_database
    \/ report = NoReport /\ create_constraints_and_indexes
    \/ report = NoReport /\ \E b \in BatchSizes : execute_queries(b)
    \/ report = NoReport /\ session_run
    \/ report = NoReport /\ hist.calls < MaxCalls /\ remove_export_files
    \/ report = NoReport /\ get_node_counts
    \/ report = NoReport /\ get_relationship_counts
    \/ report = NoReport /\ \E concept_id \in SampleIds : verify_sample_concept(concept_id)

\* most rows of an export directory the reports are checked over
MaxValRows == 2

\* the concept of id 0 (OMOP's "No matching concept") with its domain and its
\* vocabulary
ZeroDirs ==
    {[present |-> CsvFiles,
      domain |-> <<[domain_id |-> DrugDevice]>>,
      vocabulary |-> <<[vocabulary_id |-> RxNorm]>>,
      concept |-> <<[concept_id |-> <<"0">>, domain_id |-> DrugDevice,
                     vocabulary_id |-> RxNorm, standard_concept |-> f]>>,
      relationship |-> <<>>, ancestor |-> <<>>] : f \in StandardFlags}

ValInit ==
    /\ csv \in ExportDirs(MaxValRows, MaxConceptRows) \cup CompleteDirs \cup ZeroDirs
    /\ Fresh

ValSpec == ValInit /\ [][ValNext]_vars

\* ------------------------------------------------------------------------
\* cli.py: clear-db and create-indexes; validation.py: run_validation
\* ------------------------------------------------------------------------
SchemaLabels == <<TConcept, TDomain, TVocabulary>>
IndexNames == <<"index_concept_code", "index_standard_label">>

ConstraintName(label) ==
    CASE label = TConcept -> "constraint_concept_id"
      [] label = TDomain -> "constraint_domain_id"
      [] label = TVocabulary -> "constraint_vocabulary_id"

Statement(verb, name) == [verb |-> verb, name |-> name]
DetachDelete == Statement("MATCH (n) DETACH DELETE n", "")

\* SHOW CONSTRAINTS YIELD name
ShowConstraints(cons) ==
    LET held == SelectSeq(SchemaLabels, LAMBDA l : l \in cons)
    IN  [i \in 1..Len(held) |-> ConstraintName(held[i])]

\* SHOW INDEXES YIELD name: the index behind each constraint, under the
\* constraint's name, and the indexes created on their own
ShowIndexes(cons, idx) ==
    ShowConstraints(cons) \o SelectSeq(IndexNames, LAMBDA n : n \in idx)

\* one DROP statement on the schema: DROP CONSTRAINT succeeds on a constraint
\* that exists; DROP INDEX succeeds on an index that exists and backs no
\* constraint
RunDrop(q, cons, idx) ==
    IF q.verb = "DROP CONSTRAINT"
    THEN LET ls == {l \in cons : ConstraintName(l) = q.name}
         IN  [constraints |-> cons \ ls, indexes |-> idx, ok |-> ls # {}]
    ELSE [constraints |-> cons, indexes |-> idx \ {q.name}, ok |-> q.name \in idx]

RECURSIVE ExecuteDropsStopAtFailure(_, _, _, _, _)
\* a loop over the DROP statements that ends at the first failing one
ExecuteDropsStopAtFailure(queries, i, cons, idx, ignored) ==
    IF i > Len(queries)
    THEN [constraints |-> cons, indexes |-> idx, issued |-> queries, ignored |-> ignored]
    ELSE LET r == RunDrop(queries[i], cons, idx)
         IN  IF r.ok
             THEN ExecuteDropsStopAtFailure(queries, i + 1, r.constraints, r.indexes,
                                            ignored)
             ELSE [constraints |-> cons, indexes |-> idx,
                   issued |-> SubSeq(queries, 1, i),
                   ignored |-> Append(ignored, queries[i])]

RECURSIVE ExecuteDrops(_, _, _, _, _)
\* _execute_queries(driver, queries, ignore_errors=True): every statement is
\* run; one that fails is logged and the loop goes on
ExecuteDrops(queries, i, cons, idx, ignored) ==
    IF i > Len(queries)
    THEN [constraints |-> cons, indexes |-> idx, issued |-> queries, ignored |-> ignored]
    ELSE LET r == RunDrop(queries[i], cons, idx)
         IN  ExecuteDrops(queries, i + 1, r.constraints, r.indexes,
                          IF r.ok THEN ignored ELSE Append(ignored, queries[i]))

\* what can go wrong at the store during clear_database: nothing, the SHOW
\* statements fail, or the DETACH DELETE fails
ClearFaults == {"none", "show", "delete"}

\* clear_database(driver) as a whole: SHOW CONSTRAINTS and SHOW INDEXES, the
\* DROP CONSTRAINT statements, the DROP INDEX statements, then
\* MATCH (n) DETACH DELETE n with ignore_errors false
ClearDatabase(g, cons, idx, fault) ==
    LET shown == [constraints |-> ShowConstraints(cons),
                  indexes |-> ShowIndexes(cons, idx)]
        drop_constraints == [i \in 1..Len(shown.constraints) |->
                                Statement("DROP CONSTRAINT", shown.constraints[i])]
        drop_indexes == [i \in 1..Len(shown.indexes) |->
                            Statement("DROP INDEX", shown.indexes[i])]
        d1 == ExecuteDrops(drop_constraints, 1, cons, idx, <<>>)
        d2 == ExecuteDrops(drop_indexes, 1, d1.constraints, d1.indexes, d1.ignored)
    IN  IF fault = "show"
        THEN [g |-> g, constraints |-> cons, indexes |-> idx,
              shown |-> [constraints |-> <<>>, indexes |-> <<>>],
              issued |-> <<>>, ignored |-> <<>>, failed |-> "SHOW CONSTRAINTS"]
        ELSE [g |-> IF fault = "delete" THEN g ELSE Graph(<<>>, EmptyBag),
              constraints |-> d2.constraints, indexes |-> d2.indexes,
              shown |-> shown,
              issued |-> d1.issued \o d2.issued \o <<DetachDelete>>,
              ignored |-> d2.ignored,
              failed |-> IF fault = "delete" THEN DetachDelete.verb ELSE "none"]

\* the clear-db command: get_driver(), clear_database(driver), driver.close();
\* an exception is turned into a click.ClickException
clear_db(fault) ==
    /\ pc = "idle"
    /\ hist.calls < MaxCalls
    /\ LET r == ClearDatabase(Graph(nodes, edges), constraints, indexes, fault)
           ok == r.failed = "none"
       IN  /\ nodes' = r.g.nodes
           /\ edges' = r.g.edges
           /\ constraints' = r.constraints
           /\ indexes' = r.indexes
           /\ call' = [op |-> "clear_db", batch_size |-> 0,
                       steps |-> <<"clear_database">>, issued |-> r.issued,
                       outcome |-> IF ok THEN "returned" ELSE "raised",
                       failed |-> r.failed,
                       error |-> IF ok THEN "none" ELSE "ClickException",
                       driver |-> IF ok THEN "closed" ELSE "open",
                       shown |-> r.shown, ignored |-> r.ignored]
           /\ hist' = Done([hist EXCEPT !.calls = @ + 1], "clear_db", r.failed, r.g)
    /\ pc' = "idle"
    /\ UNCHANGED <<report, san, csv, bulkVars>>

RECURSIVE CreateConstraints(_, _, _)
\* the three CREATE CONSTRAINT ... IF NOT EXISTS statements in turn: one whose
\* key is held by two nodes fails, and its exception ends the loop
CreateConstraints(ns, i, cons) ==
    IF i > Len(SchemaLabels) THEN [constraints |-> cons, failed |-> "none"]
    ELSE LET l == SchemaLabels[i]
         IN  IF l \in cons THEN CreateConstraints(ns, i + 1, cons)
             ELSE IF HasDuplicate(ns, l)
                  THEN [constraints |-> cons, failed |-> ConstraintName(l)]
                  ELSE CreateConstraints(ns, i + 1, cons \cup {l})

\* the create-indexes command: get_driver(),
\* create_constraints_and_indexes(driver), driver.close()
create_indexes ==
    /\ pc = "idle"
    /\ hist.calls < MaxCalls
    /\ LET r == CreateConstraints(nodes, 1, constraints)
           ok == r.failed = "none"
       IN  /\ constraints' = r.constraints
           /\ indexes' = IF ok THEN indexes \cup {IndexNames[1], IndexNames[2]}
                         ELSE indexes
           /\ call' = [op |-> "create_indexes", batch_size |-> 0,
                       steps |-> <<"create_constraints_and_indexes">>,
                       issued |-> <<>>,
                       outcome |-> IF ok THEN "returned" ELSE "raised",
                       failed |-> r.failed,
                       error |-> IF ok THEN "none" ELSE "ClickException",
                       driver |-> IF ok THEN "closed" ELSE "open"]
           /\ hist' = Done([hist EXCEPT !.calls = @ + 1], "create_indexes", r.failed,
                           Graph(nodes, edges))
    /\ pc' = "idle"
    /\ UNCHANGED <<report, san, csv, nodes, edges, bulkVars>>

\* verify_sample_concept(driver) without an id asks for this concept
DefaultConceptId == 1177480

\* the steps of run_validation at which an exception may be raised
ValidationSteps ==
    <<"get_driver", "get_node_counts", "get_relationship_counts",
      "verify_sample_concept">>
ValidationFaults == {"none"} \cup {ValidationSteps[i] : i \in 1..Len(ValidationSteps)}

\* str(e) of the exception raised at a step
Message(step) == <<"error in ", step>>

\* a run_validation that reports what it has when a step fails
run_validation_partial(fault) ==
    /\ pc = "idle"
    /\ \E ls \in Labels(nodes) :
           LET node_counts == PyDict(NodeCountsDict(NodeCountRows(ls)))
           IN  report' =
                   [op |-> "run_validation", arg |-> None, fault |-> fault,
                    outcome |-> "returned",
                    driver |-> IF fault = "get_driver" THEN "none" ELSE "closed",
                    result |->
                        IF fault \in {"none", "get_driver", "get_node_counts"}
                        THEN PyDict([error |-> Message(fault)])
                        ELSE PyDict([node_counts_by_label_combination |-> node_counts,
                                     error |-> Message(fault)])]
    /\ UNCHANGED <<san, csv, onlineVars, bulkVars>>

\* run_validation(): get_driver(), the three reports, the mapping of the
\* three results; an exception gives {"error": str(e)}; the driver, when
\* there is one, is closed in the finally block
run_validation(fault) ==
    /\ pc = "idle"
    /\ \E ls \in Labels(nodes) :
           LET node_counts == PyDict(NodeCountsDict(NodeCountRows(ls)))
               rel_counts ==
                   PyDict([t \in relationshipTypes(edges) |->
                              BagSum(edges, {e \in DOMAIN edges : e.type = t})])
               rows == SampleRows(nodes, edges, DefaultConceptId)
               sample_verification ==
                   IF rows = {} THEN None
                   ELSE PyDict(SampleRecord(nodes, edges,
                                            CHOOSE c \in rows : \A x \in rows : c <= x))
           IN  report' =
                   [op |-> "run_validation", arg |-> None, fault |-> fault,
                    outcome |-> "returned",
                    driver |-> IF fault = "get_driver" THEN "none" ELSE "closed",
                    result |->
                        IF fault = "none"
                        THEN PyDict([node_counts_by_label_combination |-> node_counts,
                                     relationship_counts_by_type |-> rel_counts,
                                     sample_concept_verification |-> sample_verification])
                        ELSE PyDict([error |-> Message(fault)])]
    /\ UNCHANGED <<san, csv, onlineVars, bulkVars>>

\* the loader's operations and the two schema commands, and then one
\* run_validation on the graph they left
CliNext ==
    \/ report = NoReport /\ \E b \in BatchSizes : run_load_csv(b)
    \/ report = NoReport /\ clear_database
    \/ report = NoReport /\ create_constraints_and_indexes
    \/ report = NoReport /\ \E b \in BatchSizes : execute_queries(b)
    \/ report = NoReport /\ session_run
    \/ report = NoReport /\ \E fault \in ClearFaults : clear_db(fault)
    \/ report = NoReport /\ create_indexes
    \/ report = NoReport /\ \E fault \in ValidationFaults : run_validation(fault)

CliInit ==
    /\ csv \in ExportDirs(MaxValRows, MaxConceptRows) \cup CompleteDirs
    /\ Fresh

CliSpec == CliInit /\ [][CliNext]_vars

\* ------------------------------------------------------------------------
\* transformation.py: prepare_for_bulk_import
\* ------------------------------------------------------------------------
\* largest chunk_size passed to prepare_for_bulk_import
MaxChunk == 2
\* most calls of prepare_for_bulk_import in one behaviour
MaxPrepare == 2

\* the column names of the generated files
ColId == <<":","I","D">>
ColLabel == <<":","L","A","B","E","L">>
ColStartId == <<":","S","T","A","R","T","_","I","D">>
ColEndId == <<":","E","N","D","_","I","D">>
ColType == <<":","T","Y","P","E">>
ColStandardConcept == <<"s","t","a","n","d","a","r","d","_","c","o","n","c","e","p","t",":","s","t","r","i","n","g">>

\* the dictionary paths, in insertion order: the key and the file it names
paths ==
    <<[key |-> <<"d","o","m","a","i","n","_","i","n">>,
       dir |-> "source_dir", file |-> "domain.csv"],
      [key |-> <<"v","o","c","a","b","u","l","a","r","y","_","i","n">>,
       dir |-> "source_dir", file |-> "vocabulary.csv"],
      [key |-> <<"c","o","n","c","e","p","t","_","i","n">>,
       dir |-> "source_dir", file |-> "concepts_optimized.csv"],
      [key |-> <<"r","e","l","a","t","i","o","n","s","h","i","p","_","i","n">>,
       dir |-> "source_dir", file |-> "concept_relationship.csv"],
      [key |-> <<"a","n","c","e","s","t","o","r","_","i","n">>,
       dir |-> "source_dir", file |-> "concept_ancestor.csv"],
      [key |-> <<"d","o","m","a","i","n","_","n","o","d","e","s">>,
       dir |-> "import_dir", file |-> "nodes_domain.csv"],
      [key |-> <<"v","o","c","a","b","u","l","a","r","y","_","n","o","d","e","s">>,
       dir |-> "import_dir", file |-> "nodes_vocabulary.csv"],
      [key |-> <<"c","o","n","c","e","p","t","_","n","o","d","e","s">>,
       dir |-> "import_dir", file |-> "nodes_concept.csv"],
      [key |-> <<"i","n","_","d","o","m","a","i","n","_","r","e","l","s">>,
       dir |-> "import_dir", file |-> "rels_in_domain.csv"],
      [key |-> <<"f","r","o","m","_","v","o","c","a","b","_","r","e","l","s">>,
       dir |-> "import_dir", file |-> "rels_from_vocabulary.csv"],
      [key |-> <<"s","e","m","a","n","t","i","c","_","r","e","l","s">>,
       dir |-> "import_dir", file |-> "rels_semantic.csv"],
      [key |-> <<"a","n","c","e","s","t","o","r","_","r","e","l","s">>,
       dir |-> "import_dir", file |-> "rels_ancestor.csv"]>>

PathOf(key) == (CHOOSE i \in 1..Len(paths) : paths[i].key = key)
File(key) == paths[PathOf(key)].file
\* paths[key]: os.path.join(dir, file), the components of the path
Path(key) == <<paths[PathOf(key)].dir, paths[PathOf(key)].file>>

\* a file named in the command by its whole path
wholepath(path) == path

\* os.path.basename(path): the last component alone
basename(path) == <<path[Len(path)]>>

KDomainNodes == <<"d","o","m","a","i","n","_","n","o","d","e","s">>
KVocabularyNodes == <<"v","o","c","a","b","u","l","a","r","y","_","n","o","d","e","s">>
KConceptNodes == <<"c","o","n","c","e","p","t","_","n","o","d","e","s">>
KInDomainRels == <<"i","n","_","d","o","m","a","i","n","_","r","e","l","s">>
KFromVocabRels == <<"f","r","o","m","_","v","o","c","a","b","_","r","e","l","s">>
KSemanticRels == <<"s","e","m","a","n","t","i","c","_","r","e","l","s">>
KAncestorRels == <<"a","n","c","e","s","t","o","r","_","r","e","l","s">>

Absent == [exists |-> FALSE, lines |-> <<>>]

\* needle in text (Python's "in" on two strings)
Contains(text, needle) ==
    \E i \in 1..(Len(text) - Len(needle) + 1) :
        SubSeq(text, i, i + Len(needle) - 1) = needle

RECURSIVE RemoveExisting(_, _)
\* for key, path in paths.items():
\*     if "in" not in key and os.path.exists(path): os.remove(path)
RemoveExisting(fs, i) ==
    IF i > Len(paths) THEN fs
    ELSE IF ~Contains(paths[i].key, <<"i","n">>)
            /\ paths[i].file \in DOMAIN fs /\ fs[paths[i].file].exists
         THEN RemoveExisting([fs EXCEPT ![paths[i].file] = Absent], i + 1)
         ELSE RemoveExisting(fs, i + 1)

\* DataFrame.to_csv(path, index=False): the file is written anew
WriteFile(fs, f, header, rows) ==
    [fs EXCEPT ![f] = [exists |-> TRUE, lines |-> <<header>> \o rows]]

\* an append that writes the header with every chunk
AppendFileWithHeader(fs, f, header, rows, first) ==
    [fs EXCEPT ![f] = [exists |-> TRUE,
                       lines |-> fs[f].lines \o <<header>> \o rows]]

\* DataFrame.to_csv(path, mode="a", index=False, header=first): the lines are
\* appended to whatever the file holds
AppendFile(fs, f, header, rows, first) ==
    [fs EXCEPT ![f] = [exists |-> TRUE,
                       lines |-> fs[f].lines \o (IF first THEN <<header>> ELSE <<>>)
                                 \o rows]]

\* a reader that yields only the chunks of n whole rows
ChunksFullOnly(rows, n) ==
    [k \in 1..(Len(rows) \div n) |-> SubSeq(rows, (k - 1) * n + 1, k * n)]

\* the chunks pd.read_csv(path, chunksize=n) yields: the rows n at a time, and
\* one empty chunk for a file that holds only its header
Chunks(rows, n) ==
    IF rows = <<>> THEN << <<>> >>
    ELSE [k \in 1..((Len(rows) + n - 1) \div n) |->
             SubSeq(rows, (k - 1) * n + 1,
                    IF k * n < Len(rows) THEN k * n ELSE Len(rows))]

\* chunk[":LABEL"] = "Concept;" + standardize_label(domain_id), ";Standard"
\* added where standard_concept == "S"
LabelField(row) ==
    TConcept \o <<";">> \o standardize_label(PyStr(row.domain_id))
        \o (IF row.standard_concept = <<"S">> THEN <<";">> \o TStandard ELSE <<>>)

ConceptNodeLine(row) == <<row.concept_id, row.standard_concept, LabelField(row)>>

\* the texts pd.read_csv takes for a missing value unless keep_default_na=False
NaValues ==
    {<<>>,
     <<"#","N","/","A">>,
     <<"#","N","/","A"," ","N","/","A">>,
     <<"#","N","A">>,
     <<"-","1",".","#","I","N","D">>,
     <<"-","1",".","#","Q","N","A","N">>,
     <<"-","N","a","N">>,
     <<"-","n","a","n">>,
     <<"1",".","#","I","N","D">>,
     <<"1",".","#","Q","N","A","N">>,
     <<"<","N","A",">">>,
     <<"N","/","A">>,
     <<"N","A">>,
     <<"N","U","L","L">>,
     <<"N","a","N">>,
     <<"N","o","n","e">>,
     <<"n","/","a">>,
     <<"n","a","n">>,
     <<"n","u","l","l">>}

\* a cell read by pd.read_csv(path, dtype=str) and written back by to_csv: a
\* missing value is written as the empty text
ReadDefaultNa(cell) == IF cell \in NaValues THEN <<>> ELSE cell

\* df_domain[":LABEL"] = "Domain"; rename domain_id to :ID; to_csv
WriteDomainNodes(fs, src) ==
    WriteFile(fs, File(KDomainNodes), <<ColId, ColLabel>>,
              [i \in 1..Len(src.domain) |->
                  <<ReadDefaultNa(src.domain[i].domain_id), TDomain>>])

\* df_vocab[":LABEL"] = "Vocabulary"; rename vocabulary_id to :ID; to_csv
WriteVocabularyNodes(fs, src) ==
    WriteFile(fs, File(KVocabularyNodes), <<ColId, ColLabel>>,
              [i \in 1..Len(src.vocabulary) |->
                  <<ReadDefaultNa(src.vocabulary[i].vocabulary_id), TVocabulary>>])

\* a chunk whose IN_DOMAIN rows end at the sanitized domain label
WriteConceptChunkSanitized(fs, chunk, first) ==
    LET f1 == AppendFile(fs, File(KConceptNodes),
                         <<ColId, ColStandardConcept, ColLabel>>,
                         [i \in 1..Len(chunk) |-> ConceptNodeLine(chunk[i])], first)
        f2 == AppendFile(f1, File(KInDomainRels), <<ColStartId, ColEndId, ColType>>,
                         [i \in 1..Len(chunk) |->
                             <<chunk[i].concept_id,
                               standardize_label(PyStr(chunk[i].domain_id)),
                               TInDomain>>],
                         first)
    IN  AppendFile(f2, File(KFromVocabRels), <<ColStartId, ColEndId, ColType>>,
                   [i \in 1..Len(chunk) |->
                       <<chunk[i].concept_id, chunk[i].vocabulary_id, TFromVocabulary>>],
                   first)

\* one chunk of concepts_optimized.csv: the node rows, then the IN_DOMAIN and the
\* FROM_VOCABULARY rows taken from the copy of the chunk
WriteConceptChunk(fs, chunk, first) ==
    LET f1 == AppendFile(fs, File(KConceptNodes),
                         <<ColId, ColStandardConcept, ColLabel>>,
                         [i \in 1..Len(chunk) |-> ConceptNodeLine(chunk[i])], first)
        f2 == AppendFile(f1, File(KInDomainRels), <<ColStartId, ColEndId, ColType>>,
                         [i \in 1..Len(chunk) |->
                             <<chunk[i].concept_id, chunk[i].domain_id, TInDomain>>],
                         first)
    IN  AppendFile(f2, File(KFromVocabRels), <<ColStartId, ColEndId, ColType>>,
                   [i \in 1..Len(chunk) |->
                       <<chunk[i].concept_id, chunk[i].vocabulary_id, TFromVocabulary>>],
                   first)

\* one chunk of concept_relationship.csv
WriteSemanticChunk(fs, chunk, first) ==
    AppendFile(fs, File(KSemanticRels), <<ColStartId, ColEndId, ColType>>,
               [i \in 1..Len(chunk) |->
                   <<chunk[i].concept_id_1, chunk[i].concept_id_2,
                     standardize_reltype(PyStr(chunk[i].relationship_id))>>],
               first)

\* one chunk of concept_ancestor.csv
WriteAncestorChunk(fs, chunk, first) ==
    AppendFile(fs, File(KAncestorRels), <<ColStartId, ColEndId, ColType>>,
               [i \in 1..Len(chunk) |->
                   <<chunk[i].descendant_concept_id, chunk[i].ancestor_concept_id,
                     THasAncestor>>],
               first)

WriteChunk(kind, fs, chunk, first) ==
    CASE kind = "concept" -> WriteConceptChunk(fs, chunk, first)
      [] kind = "relationship" -> WriteSemanticChunk(fs, chunk, first)
      [] kind = "ancestor" -> WriteAncestorChunk(fs, chunk, first)

RECURSIVE WriteChunks(_, _, _, _)
\* is_first_chunk = True; for chunk in pd.read_csv(...): ...; is_first_chunk = False
WriteChunks(kind, fs, chunks, k) ==
    IF k > Len(chunks) THEN fs
    ELSE WriteChunks(kind, WriteChunk(kind, fs, chunks[k], k = 1), chunks, k + 1)

\* the files prepare_for_bulk_import(chunk_size, import_dir) leaves in
\* import_dir: the cleanup, then one source file after the other; pd.read_csv
\* of a file that is not there raises FileNotFoundError and ends the call
Transform(fs, src, chunk_size) ==
    LET f0 == RemoveExisting(fs, 1)
        f1 == WriteDomainNodes(f0, src)
        f2 == WriteVocabularyNodes(f1, src)
        f3 == WriteChunks("concept", f2, Chunks(src.concept, chunk_size), 1)
        f4 == WriteChunks("relationship", f3, Chunks(src.relationship, chunk_size), 1)
    IN  IF "domain.csv" \notin src.present THEN f0
        ELSE IF "vocabulary.csv" \notin src.present THEN f1
        ELSE IF "concepts_optimized.csv" \notin src.present THEN f2
        ELSE IF "concept_relationship.csv" \notin src.present THEN f3
        ELSE IF "concept_ancestor.csv" \notin src.present THEN f4
        ELSE WriteChunks("ancestor", f4, Chunks(src.ancestor, chunk_size), 1)

\* how a call ends: None without any CSV file, FileNotFoundError raised by
\* pd.read_csv when one of the five is not there, the command otherwise
Result(src) ==
    IF src.present = {} THEN "None"
    ELSE IF CsvFiles \subseteq src.present THEN "command"
    ELSE "raised"

Arg(o, v) == [option |-> o, value |-> v]

\* the command prepare_for_bulk_import returns, one entry per line of it
final_command ==
    LET node_files == <<Path(KDomainNodes), Path(KVocabularyNodes), Path(KConceptNodes)>>
        rel_files == <<Path(KInDomainRels), Path(KFromVocabRels),
                       Path(KSemanticRels), Path(KAncestorRels)>>
    IN  <<Arg("neo4j-admin database import full", <<>>),
          Arg("--delimiter", <<",">>),
          Arg("--array-delimiter", <<"|">>),
          Arg("--multiline-fields", <<"true">>)>>
        \o [i \in 1..Len(node_files) |-> Arg("--nodes", basename(node_files[i]))]
        \o [i \in 1..Len(rel_files) |->
                Arg("--relationships", basename(rel_files[i]))]
        \o <<Arg("neo4j", <<>>)>>

\* a call that removes the earlier output before it looks for source files
prepare_for_bulk_import_cleanup_first(chunk_size) ==
    /\ bulk.calls < MaxPrepare
    /\ pc = "idle"
    /\ files' = IF csv.present = {} THEN RemoveExisting(files, 1)
                ELSE Transform(files, csv, chunk_size)
    /\ bulk' = [calls |-> bulk.calls + 1,
                chunk_size |-> chunk_size,
                result |-> Result(csv),
                command |-> IF Result(csv) = "command" THEN final_command ELSE <<>>,
                import_dir |-> TRUE,
                first |-> IF bulk.calls = 0 THEN files' ELSE bulk.first]
    /\ imported' = [ran |-> FALSE, ok |-> FALSE, nodes |-> <<>>, edges |-> EmptyBag]
    /\ UNCHANGED <<report, san, csv, onlineVars>>

\* prepare_for_bulk_import(chunk_size, import_dir): without a CSV file in the
\* export directory it returns None before os.makedirs(import_dir)
prepare_for_bulk_import(chunk_size) ==
    /\ bulk.calls < MaxPrepare
    /\ pc = "idle"
    /\ files' = IF csv.present = {} THEN files
                ELSE Transform(files, csv, chunk_size)
    /\ bulk' = [calls |-> bulk.calls + 1,
                chunk_size |-> chunk_size,
                result |-> Result(csv),
                command |-> IF Result(csv) = "command" THEN final_command
                            ELSE bulk.command,
                import_dir |-> bulk.import_dir \/ csv.present # {},
                first |-> IF bulk.calls = 0 THEN files' ELSE bulk.first]
    /\ imported' = [ran |-> FALSE, ok |-> FALSE, nodes |-> <<>>, edges |-> EmptyBag]
    /\ UNCHANGED <<report, san, csv, onlineVars>>

\* ------------------------------------------------------------------------
\* Running the returned command: neo4j-admin database import full
\* ------------------------------------------------------------------------
\* the value the command gives an option, or the tool's default
Option(cmd, name, default) ==
    IF \E i \in 1..Len(cmd) : cmd[i].option = name
    THEN cmd[CHOOSE i \in 1..Len(cmd) : cmd[i].option = name].value
    ELSE default

\* the files the command names with an option, in command order
Named(cmd, name) ==
    LET idx == {i \in 1..Len(cmd) : cmd[i].option = name}
        RECURSIVE Pick(_)
        Pick(i) == IF i > Len(cmd) THEN <<>>
                   ELSE (IF i \in idx THEN <<cmd[i].value>> ELSE <<>>) \o Pick(i + 1)
    IN  Pick(1)

RECURSIVE SplitOnFrom(_, _, _, _)
SplitOnFrom(s, d, i, parts) ==
    IF i > Len(s) THEN parts
    ELSE IF s[i] = d THEN SplitOnFrom(s, d, i + 1, Append(parts, <<>>))
         ELSE SplitOnFrom(s, d, i + 1, [parts EXCEPT ![Len(parts)] = Append(@, s[i])])

\* a field split at every delimiter character
SplitOn(s, d) == SplitOnFrom(s, d, 1, << <<>> >>)

Column(header, name) == CHOOSE i \in 1..Len(header) : header[i] = name

\* the data lines of the named files, each with the header of its file
DataLines(fs, names) ==
    LET RECURSIVE Of(_)
        Of(k) == IF k > Len(names) THEN <<>>
                 ELSE LET ls == fs[names[k]].lines
                      IN  [i \in 1..(Len(ls) - 1) |-> [header |-> ls[1], cells |-> ls[i + 1]]]
                          \o Of(k + 1)
    IN  Of(1)

RECURSIVE ImportNodes(_, _, _, _, _)
\* node lines in order: the :ID is the node's key in one id space, the :LABEL
\* field is split at the array delimiter; a second node of an :ID aborts the
\* import unless --skip-duplicate-nodes
ImportNodes(lines, i, ns, delim, skipDup) ==
    IF i > Len(lines) THEN [nodes |-> ns, ok |-> TRUE]
    ELSE LET h == lines[i].header
             id == lines[i].cells[Column(h, ColId)]
             n == [id |-> id,
                   labels |-> {l \in {SplitOn(lines[i].cells[Column(h, ColLabel)], delim)[k] :
                                  k \in 1..Len(SplitOn(lines[i].cells[Column(h, ColLabel)], delim))} :
                               l # <<>>}]
         IN  IF \E j \in 1..Len(ns) : ns[j].id = id
             THEN IF skipDup THEN ImportNodes(lines, i + 1, ns, delim, skipDup)
                  ELSE [nodes |-> ns, ok |-> FALSE]
             ELSE ImportNodes(lines, i + 1, Append(ns, n), delim, skipDup)

RECURSIVE ImportRelationships(_, _, _, _, _)
\* relationship lines in order: a line whose :START_ID or :END_ID names no node
\* aborts the import unless --skip-bad-relationships
ImportRelationships(lines, i, ns, es, skipBad) ==
    IF i > Len(lines) THEN [edges |-> es, ok |-> TRUE]
    ELSE LET h == lines[i].header
             a == lines[i].cells[Column(h, ColStartId)]
             b == lines[i].cells[Column(h, ColEndId)]
             t == lines[i].cells[Column(h, ColType)]
             known(x) == \E j \in 1..Len(ns) : ns[j].id = x
         IN  IF known(a) /\ known(b)
             THEN ImportRelationships(lines, i + 1, ns, AddEdges(es, Edge(t, a, b), 1), skipBad)
             ELSE IF skipBad THEN ImportRelationships(lines, i + 1, ns, es, skipBad)
                  ELSE [edges |-> es, ok |-> FALSE]

\* the graph the command builds from the files of the import directory
Import(cmd, fs) ==
    LET node_files == Named(cmd, "--nodes")
        rel_files == Named(cmd, "--relationships")
        delim == Option(cmd, "--array-delimiter", <<";">>)[1]
        skipDup == Option(cmd, "--skip-duplicate-nodes", <<"false">>) = <<"true">>
        skipBad == Option(cmd, "--skip-bad-relationships", <<"false">>) = <<"true">>
        \* a file is looked up in the import directory by its name
        found(v) == Len(v) = 1 /\ fs[v[1]].exists
        names(vs) == [k \in 1..Len(vs) |-> vs[k][1]]
        failed == [ran |-> TRUE, ok |-> FALSE, nodes |-> <<>>, edges |-> EmptyBag]
    IN  IF \E k \in 1..Len(node_files) : ~found(node_files[k]) THEN failed
        ELSE IF \E k \in 1..Len(rel_files) : ~found(rel_files[k]) THEN failed
        ELSE LET n == ImportNodes(DataLines(fs, names(node_files)), 1, <<>>, delim, skipDup)
             IN  IF ~n.ok THEN failed
                 ELSE LET r == ImportRelationships(DataLines(fs, names(rel_files)), 1,
                                                   n.nodes, EmptyBag, skipBad)
                      IN  IF ~r.ok THEN failed
                          ELSE [ran |-> TRUE, ok |-> TRUE, nodes |-> n.nodes,
                                edges |-> r.edges]

\* the operator runs the command printed by the last call
neo4j_admin_import ==
    /\ bulk.command # <<>>
    /\ ~imported.ran
    /\ imported' = Import(bulk.command, files)
    /\ UNCHANGED <<report, san, csv, onlineVars, files, bulk>>

\* ------------------------------------------------------------------------
\* The bulk transformer over every small export directory
\* ------------------------------------------------------------------------
TNA == <<"N","A">>
TNull == <<"n","u","l","l">>

\* one concept with its domain and its vocabulary, where the domain id or the
\* vocabulary id is spelled like a missing value, or the domain id is also
\* the vocabulary id
KeyDirs ==
    {[present |-> CsvFiles,
      domain |-> <<[domain_id |-> d]>>,
      vocabulary |-> <<[vocabulary_id |-> v]>>,
      concept |-> <<[concept_id |-> <<"1">>, domain_id |-> d, vocabulary_id |-> v,
                     standard_concept |-> <<"S">>]>>,
      relationship |-> <<>>, ancestor |-> <<>>] :
        d \in {DrugDevice, TNA, RxNorm}, v \in {RxNorm, TNull}}

BulkInit ==
    /\ csv \in ExportDirs(MaxRows, MaxConceptRows) \cup CompleteDirs \cup KeyDirs
    /\ Fresh

BulkNext ==
    \/ \E n \in 1..MaxChunk : prepare_for_bulk_import(n)
    \/ neo4j_admin_import
    \/ bulk.calls < MaxPrepare /\ remove_export_files
    \/ bulk.calls < MaxPrepare /\ \E f \in CsvFiles : remove_export_file(f)

BulkSpec == BulkInit /\ [][BulkNext]_vars

\* ------------------------------------------------------------------------
\* The sanitizers over every short text
\* ------------------------------------------------------------------------
SanChars == {"a", "B", "1", " ", "_", "/"}

\* the label both loaders give a domain id
label_from(text) ==
    /\ san.op = "none"
    /\ san' = [op |-> "label", arg |-> PyStr(text),
               bulk |-> standardize_label(PyStr(text)),
               online |-> standardizedLabel(text)]
    /\ UNCHANGED <<report, csv, onlineVars, bulkVars>>

\* the edge type both loaders give a relationship id
reltype_from(text) ==
    /\ san.op = "none"
    /\ san' = [op |-> "reltype", arg |-> PyStr(text),
               bulk |-> standardize_reltype(PyStr(text)), online |-> relType(text)]
    /\ UNCHANGED <<report, csv, onlineVars, bulkVars>>

\* largest int passed to a sanitizer
MaxInt == 12

\* the values the sanitizers are called with
PyValues ==
    {None} \cup {PyStr(text) : text \in TextsUpTo(SanChars, MaxStrLen)}
           \cup {PyInt(n) : n \in (0 - 1)..MaxInt}

\* standardize_label(s) called with any value
call_standardize_label(s) ==
    /\ san.op = "none"
    /\ san' = [op |-> "standardize_label", arg |-> s,
               bulk |-> standardize_label(s), online |-> <<>>]
    /\ UNCHANGED <<report, csv, onlineVars, bulkVars>>

\* standardize_reltype(s) called with any value
call_standardize_reltype(s) ==
    /\ san.op = "none"
    /\ san' = [op |-> "standardize_reltype", arg |-> s,
               bulk |-> standardize_reltype(s), online |-> <<>>]
    /\ UNCHANGED <<report, csv, onlineVars, bulkVars>>

SanInit ==
    /\ csv = [present |-> CsvFiles, domain |-> <<>>, vocabulary |-> <<>>,
              concept |-> <<>>, relationship |-> <<>>, ancestor |-> <<>>]
    /\ Fresh

SanNext ==
    \/ \E text \in TextsUpTo(SanChars, MaxStrLen) : label_from(text)
    \/ \E text \in TextsUpTo(SanChars, MaxStrLen) : reltype_from(text)
    \/ \E s \in PyValues : call_standardize_label(s)
    \/ \E s \in PyValues : call_standardize_reltype(s)

SanSpec == SanInit /\ [][SanNext]_vars

\* ------------------------------------------------------------------------
\* Properties
\* ------------------------------------------------------------------------
\* the statements in the order the specification gives them
LoadOrder ==
    <<"load_domains", "load_vocabularies", "load_concepts",
      "load_relationships", "load_ancestors">>

IsPrefix(s, t) == Len(s) <= Len(t) /\ SubSeq(t, 1, Len(s)) = s

NodesOf(ns, label) == {i \in 1..Len(ns) : label \in ns[i].labels}

EdgesOf(es, type) == BagSum(es, {e \in DOMAIN es : e.type = type})

\* C1: after every call of prepare_for_bulk_import the seven generated files
\* hold what the first call wrote into the empty import directory
C1_RepeatedPrepareSameFiles ==
    bulk.calls > 0 => files = bulk.first

\* C2: for every relationship id the type the online relationship statement
\* derives is the type standardize_reltype writes into :TYPE
C2_OnlineTypeIsBulkType ==
    san.op = "reltype" => san.online = san.bulk

\* C3: a run_load_csv that follows a successful run_load_csv over the same
\* export directory succeeds and leaves the same node count per label set and
\* the same edge count per type, and every run_load_csv has completed
\* clear_database and then create_constraints_and_indexes before its first
\* data statement
C3_ReloadIdempotent ==
    /\ \A i \in 2..Len(hist.done) :
           (/\ hist.done[i - 1].op = "run_load_csv"
            /\ hist.done[i - 1].outcome = "returned"
            /\ hist.done[i].op = "run_load_csv"
            /\ hist.done[i].failed # "preflight")
           => /\ hist.done[i].outcome = "returned"
              /\ hist.done[i].counts = hist.done[i - 1].counts
    /\ (call.op = "run_load_csv" /\ (pc = "load" \/ call.issued # <<>>))
       => /\ call.steps = <<"clear_database", "create_constraints_and_indexes">>
          /\ constraints = {TConcept, TDomain, TVocabulary}
    /\ (call.op = "run_load_csv" /\ pc = "load" /\ call.issued = <<>>)
       => nodes = <<>> /\ edges = EmptyBag

\* a second run_load_csv has reloaded a graph of nodes and edges
C3_Witness ==
    /\ Len(hist.done) = 2
    /\ hist.done[1].op = "run_load_csv" /\ hist.done[1].outcome = "returned"
    /\ hist.done[2].op = "run_load_csv" /\ hist.done[2].outcome = "returned"
    /\ hist.done[2].counts.nodes # {} /\ hist.done[2].counts.edges # {}

\* C4: the five statements executed without clearing, on the constrained graph
\* a load of the same export directory populated, end in an error raised to
\* the caller, add nothing, and leave no second node of a key
C4_UnclearedReloadFails ==
    /\ \A i \in 2..Len(hist.done) :
           (/\ hist.done[i - 1].op = "run_load_csv"
            /\ hist.done[i - 1].outcome = "returned"
            /\ hist.done[i - 1].counts.nodes # {}
            /\ hist.done[i].op = "_execute_queries")
           => /\ hist.done[i].outcome = "raised"
              /\ hist.done[i].failed \in
                     {"load_domains", "load_vocabularies", "load_concepts"}
              /\ hist.done[i].counts = hist.done[i - 1].counts
    /\ \A label \in constraints : ~HasDuplicate(nodes, label)

\* the statements were executed on a populated constrained graph and raised
C4_Witness ==
    /\ Len(hist.done) = 2
    /\ hist.done[1].op = "run_load_csv" /\ hist.done[1].outcome = "returned"
    /\ hist.done[1].counts.nodes # {}
    /\ hist.done[2].op = "_execute_queries" /\ hist.done[2].outcome = "raised"
    /\ constraints = {TConcept, TDomain, TVocabulary}

\* C5: when a statement fails the call ends raised with that statement the
\* last one issued, each statement before it issued once and none after it,
\* the nodes of the statements before it still in the graph, and run_load_csv
\* ends raised as well
C5_FailureIsHard ==
    /\ call.failed # "none"
       => /\ pc = "idle"
          /\ call.outcome = "raised"
          /\ call.issued # <<>>
          /\ call.issued[Len(call.issued)] = call.failed
          /\ IsPrefix(call.issued, LoadOrder)
          /\ hist.done # <<>>
          /\ hist.done[Len(hist.done)] =
                 [op |-> call.op, outcome |-> "raised", failed |-> call.failed,
                  counts |-> Counts(nodes, edges)]
    /\ (call.failed # "none" /\ call.op = "run_load_csv")
       => /\ Len(call.issued) >= 2
             => Cardinality(NodesOf(nodes, TDomain)) = Len(csv.domain)
          /\ Len(call.issued) >= 3
             => Cardinality(NodesOf(nodes, TVocabulary)) = Len(csv.vocabulary)

\* run_load_csv failed at the concept statement, after the domain statement
\* had created a node that is still there
C5_Witness ==
    /\ call.op = "run_load_csv"
    /\ call.outcome = "raised"
    /\ call.failed = "load_concepts"
    /\ NodesOf(nodes, TDomain) # {}

\* C6: the statements issued are always the first ones of domains,
\* vocabularies, concepts, semantic relationships, ancestors, in that order,
\* and a call that returns has issued exactly these five
C6_FiveStatementsInOrder ==
    /\ IsPrefix(call.issued, LoadOrder)
    /\ (call.op # "none" /\ call.outcome = "returned") => call.issued = LoadOrder
    /\ pc = "load" => Len(call.issued) < Len(LoadOrder)

\* a load has issued all five statements and returned with concepts and edges
\* between them in the graph
C6_Witness ==
    /\ call.op = "run_load_csv"
    /\ call.outcome = "returned"
    /\ call.issued = LoadOrder
    /\ EdgesOf(edges, THasAncestor) > 0
    /\ EdgesOf(edges, TInDomain) > 0

\* the concept ids of the export directory, as the statements read them
CsvConceptIds == {toInteger(csv.concept[i].concept_id) : i \in 1..Len(csv.concept)}

\* the rows of an edge file whose two endpoint ids are both concept ids
ResolvedRelationships ==
    {i \in 1..Len(csv.relationship) :
        /\ toInteger(csv.relationship[i].concept_id_1) \in CsvConceptIds
        /\ toInteger(csv.relationship[i].concept_id_2) \in CsvConceptIds}

ResolvedAncestors ==
    {i \in 1..Len(csv.ancestor) :
        /\ toInteger(csv.ancestor[i].descendant_concept_id) \in CsvConceptIds
        /\ toInteger(csv.ancestor[i].ancestor_concept_id) \in CsvConceptIds}

\* the edges whose type a relationship id gave
SemanticEdges(es) ==
    BagSum(es, {e \in DOMAIN es :
                   e.type \notin {TInDomain, TFromVocabulary, THasAncestor}})

\* C7: in a run_load_csv the relationship statement and the ancestor statement
\* never fail, and each leaves one edge for every row of its file whose two
\* endpoints are loaded concepts and none for any other row
C7_EdgeIffBothEndpoints ==
    /\ call.failed \notin {"load_relationships", "load_ancestors"}
    /\ (call.op = "run_load_csv" /\ call.failed = "none"
        /\ Len(call.issued) >= 4)
       => SemanticEdges(edges) = Cardinality(ResolvedRelationships)
    /\ (call.op = "run_load_csv" /\ call.failed = "none"
        /\ Len(call.issued) >= 5)
       => EdgesOf(edges, THasAncestor) = Cardinality(ResolvedAncestors)
    /\ (call.op = "run_load_csv" /\ call.failed = "none"
        /\ Len(call.issued) = 3)
       => SemanticEdges(edges) = 0 /\ EdgesOf(edges, THasAncestor) = 0

\* the relationship statement has run a batch of two rows whose first row has
\* no second endpoint: the edge of the second row is there and the load goes on
C7_Witness ==
    /\ call.op = "run_load_csv"
    /\ call.batch_size = 2
    /\ pc = "load"
    /\ Len(call.issued) = 4
    /\ Len(csv.relationship) = 2
    /\ toInteger(csv.relationship[1].concept_id_1) \in CsvConceptIds
    /\ 1 \notin ResolvedRelationships
    /\ 2 \in ResolvedRelationships
    /\ SemanticEdges(edges) = 1

\* the export directory is one the importer accepts, but for relationship
\* rows whose second endpoint is no concept row
OrphanOnly ==
    /\ \A i, j \in 1..Len(csv.domain) : csv.domain[i] = csv.domain[j] => i = j
    /\ \A i, j \in 1..Len(csv.vocabulary) : csv.vocabulary[i] = csv.vocabulary[j] => i = j
    /\ \A i, j \in 1..Len(csv.concept) :
           csv.concept[i].concept_id = csv.concept[j].concept_id => i = j
    /\ \A i \in 1..Len(csv.concept) :
           /\ \E j \in 1..Len(csv.domain) :
                  csv.domain[j].domain_id = csv.concept[i].domain_id
           /\ \E j \in 1..Len(csv.vocabulary) :
                  csv.vocabulary[j].vocabulary_id = csv.concept[i].vocabulary_id
    /\ ResolvedAncestors = 1..Len(csv.ancestor)
    /\ \A i \in 1..Len(csv.relationship) :
           toInteger(csv.relationship[i].concept_id_1) \in CsvConceptIds
    /\ ResolvedRelationships # 1..Len(csv.relationship)

\* C8: a relationship row whose second endpoint is no concept row is written
\* to rels_semantic.csv, and the import of the files of one call succeeds
\* with no edge for that row
C8_OrphanRowImportsNoEdge ==
    (bulk.calls = 1 /\ bulk.result = "command" /\ OrphanOnly)
    => /\ Len(files["rels_semantic.csv"].lines) = 1 + Len(csv.relationship)
       /\ imported.ran
          => /\ imported.ok
             /\ BagSum(imported.edges,
                       {e \in DOMAIN imported.edges :
                           e.type = standardize_reltype(PyStr(MapsTo))})
                = Cardinality(ResolvedRelationships)

\* the edges of a type that leave node c
OutEdges(es, type, c) ==
    BagSum(es, {e \in DOMAIN es : e.type = type /\ e.start = c})

\* C9: after a successful run_load_csv every Concept node has exactly one
\* IN_DOMAIN edge and exactly one FROM_VOCABULARY edge
C9_OneDomainOneVocabularyEdge ==
    (call.op = "run_load_csv" /\ call.outcome = "returned")
    => \A c \in NodesOf(nodes, TConcept) :
           /\ OutEdges(edges, TInDomain, c) = 1
           /\ OutEdges(edges, TFromVocabulary, c) = 1

\* C10: after a successful run_load_csv the labels of every Concept node are
\* Concept, standardize_label of its domain id, and Standard exactly when its
\* standard flag is the text S
C10_LabelSet ==
    (call.op = "run_load_csv" /\ call.outcome = "returned")
    => \A c \in NodesOf(nodes, TConcept) :
           nodes[c].labels =
               {TConcept, standardize_label(PyStr(nodes[c].domain_id))}
               \cup (IF nodes[c].standard_concept = <<"S">> THEN {TStandard} ELSE {})

RECURSIVE AlnumRuns(_)
\* the maximal runs of letters and digits of a text, in order
AlnumRuns(t) ==
    IF t = <<>> THEN <<>>
    ELSE IF ~IsAlnum(t[1]) THEN AlnumRuns(Tail(t))
    ELSE LET n == CHOOSE k \in 1..Len(t) :
                      /\ \A i \in 1..k : IsAlnum(t[i])
                      /\ k = Len(t) \/ ~IsAlnum(t[k + 1])
         IN  <<SubSeq(t, 1, n)>> \o AlnumRuns(SubSeq(t, n + 1, Len(t)))

\* an input that is empty or absent
EmptyOrAbsent(s) == s = None \/ s = PyStr(<<>>)

\* the rule for labels: each run with its first character upper-cased, the
\* runs joined with nothing between them
LabelRule(s) ==
    IF EmptyOrAbsent(s) THEN <<>>
    ELSE LET runs == AlnumRuns(str(s))
         IN  Concat([i \in 1..Len(runs) |->
                        <<UpperChar(runs[i][1])>> \o Tail(runs[i])])

\* the rule for edge types: the runs upper-cased and joined by one underscore
RelTypeRule(s) ==
    IF EmptyOrAbsent(s) THEN <<>>
    ELSE LET runs == AlnumRuns(str(s))
         IN  Concat([i \in 1..Len(runs) |->
                        (IF i = 1 THEN <<>> ELSE <<"_">>) \o UpperStr(runs[i])])

\* C11: the label standardize_label derives from a non-empty domain id is not
\* empty, holds only letters and digits, and does not begin with a digit
C11_LabelIsIdentifier ==
    (san.op = "label" /\ san.arg.text # <<>>)
    => /\ san.bulk # <<>>
       /\ \A i \in 1..Len(san.bulk) : IsAlnum(san.bulk[i])
       /\ san.bulk[1] \notin Digits

\* C12: for every value, standardize_label returns the empty text for an
\* empty or absent input and otherwise the label rule applied to the string
\* form of the value
C12_LabelEqualsRule ==
    san.op = "standardize_label" => san.bulk = LabelRule(san.arg)

\* C13: for every value, standardize_reltype returns a text of upper-case
\* letters, digits and underscores that neither begins nor ends with an
\* underscore nor holds two in a row; for None and for every str it is the
\* edge-type rule, the empty text for an empty or absent input
C13_RelTypeShape ==
    san.op = "standardize_reltype"
    => /\ \A i \in 1..Len(san.bulk) :
              IsUpper(san.bulk[i]) \/ san.bulk[i] \in Digits \/ san.bulk[i] = "_"
       /\ san.bulk # <<>> => san.bulk[1] # "_" /\ san.bulk[Len(san.bulk)] # "_"
       /\ \A i \in 1..(Len(san.bulk) - 1) :
              ~(san.bulk[i] = "_" /\ san.bulk[i + 1] = "_")
       /\ san.arg.type \in {"NoneType", "str"} => san.bulk = RelTypeRule(san.arg)
       /\ EmptyOrAbsent(san.arg) => san.bulk = <<>>

\* an id whose two letters are separated by a blank and an underscore
C13_Witness ==
    /\ san.op = "standardize_reltype"
    /\ san.arg = PyStr(<<"a", " ", "_", "B">>)
    /\ san.bulk = <<"A", "_", "B">>

\* C14: for every domain id the label the online concept statement adds is
\* standardize_label of the domain id
C14_OnlineLabelIsBulkLabel ==
    san.op = "label" => san.online = san.bulk

\* the data lines of a generated file
DataRows(f) == IF files[f].lines = <<>> THEN <<>> ELSE Tail(files[f].lines)

\* C15: one call into the empty import directory writes as many data rows
\* to each of the seven files as its source file has rows, for every chunk
\* size, each row in the place of its source row
C15_RowCounts ==
    (bulk.calls = 1 /\ bulk.result = "command")
    => /\ Len(DataRows("nodes_domain.csv")) = Len(csv.domain)
       /\ Len(DataRows("nodes_vocabulary.csv")) = Len(csv.vocabulary)
       /\ Len(DataRows("nodes_concept.csv")) = Len(csv.concept)
       /\ Len(DataRows("rels_in_domain.csv")) = Len(csv.concept)
       /\ Len(DataRows("rels_from_vocabulary.csv")) = Len(csv.concept)
       /\ Len(DataRows("rels_semantic.csv")) = Len(csv.relationship)
       /\ Len(DataRows("rels_ancestor.csv")) = Len(csv.ancestor)
       /\ \A i \in 1..Len(csv.concept) :
              /\ DataRows("nodes_concept.csv")[i][1] = csv.concept[i].concept_id
              /\ DataRows("rels_in_domain.csv")[i][1] = csv.concept[i].concept_id
              /\ DataRows("rels_from_vocabulary.csv")[i][1] = csv.concept[i].concept_id
       /\ \A i \in 1..Len(csv.relationship) :
              /\ DataRows("rels_semantic.csv")[i][1] = csv.relationship[i].concept_id_1
              /\ DataRows("rels_semantic.csv")[i][2] = csv.relationship[i].concept_id_2
       /\ \A i \in 1..Len(csv.ancestor) :
              /\ DataRows("rels_ancestor.csv")[i][1] =
                     csv.ancestor[i].descendant_concept_id
              /\ DataRows("rels_ancestor.csv")[i][2] =
                     csv.ancestor[i].ancestor_concept_id

\* three relationship rows were written in chunks of two
C15_Witness ==
    /\ bulk.calls = 1
    /\ bulk.result = "command"
    /\ bulk.chunk_size = 2
    /\ Len(csv.relationship) = 3
    /\ Len(files["rels_semantic.csv"].lines) = 4

\* C16: a call of prepare_for_bulk_import that finds no CSV file in the
\* export directory returns None, does not create the import directory, and
\* leaves every file of it as it was
C16_NothingToDo ==
    [][(csv.present = {} /\ bulk'.calls = bulk.calls + 1)
       => /\ bulk'.result = "None"
          /\ bulk'.import_dir = bulk.import_dir
          /\ files' = files]_vars

\* a call returned None and the output of an earlier call is still there
C16_Witness ==
    /\ csv.present = {}
    /\ bulk.calls = 2
    /\ bulk.result = "None"
    /\ files["nodes_concept.csv"].exists
    /\ Len(files["rels_semantic.csv"].lines) > 1

\* C17: a run_load_csv that finds no CSV file in the export directory raises
\* the error that no CSV files were found, with no driver opened and the
\* graph and its constraints as they were
C17_NoCsvNoWork ==
    [][(csv.present = {} /\ hist'.calls = hist.calls + 1
        /\ call'.op = "run_load_csv")
       => /\ call'.outcome = "raised"
          /\ call'.error = "No CSV files found"
          /\ call'.driver = "none"
          /\ call'.steps = <<>> /\ call'.issued = <<>>
          /\ pc' = "idle"
          /\ nodes' = nodes /\ edges' = edges /\ constraints' = constraints]_vars

\* run_load_csv raised for want of CSV files and the populated, constrained
\* graph of the earlier load is still there
C17_Witness ==
    /\ csv.present = {}
    /\ call.op = "run_load_csv"
    /\ call.error = "No CSV files found"
    /\ nodes # <<>>
    /\ edges # EmptyBag
    /\ constraints = {TConcept, TDomain, TVocabulary}

\* C18: the returned command names the three node files and then the four
\* relationship files, each once and by its file name alone, and each named
\* file exists in the import directory
C18_CommandNamesFiles ==
    bulk.result = "command"
    => /\ Named(bulk.command, "--nodes") =
              << <<"nodes_domain.csv">>, <<"nodes_vocabulary.csv">>,
                 <<"nodes_concept.csv">> >>
       /\ Named(bulk.command, "--relationships") =
              << <<"rels_in_domain.csv">>, <<"rels_from_vocabulary.csv">>,
                 <<"rels_semantic.csv">>, <<"rels_ancestor.csv">> >>
       /\ \A i, j \in 1..Len(bulk.command) :
              (bulk.command[i].option = "--nodes"
               /\ bulk.command[j].option = "--relationships") => i < j
       /\ \A i \in 1..Len(bulk.command) :
              bulk.command[i].option \in {"--nodes", "--relationships"}
              => /\ Len(bulk.command[i].value) = 1
                 /\ files[bulk.command[i].value[1]].exists

\* a call over header-only source files returned the command
C18_Witness ==
    /\ bulk.calls = 1
    /\ bulk.result = "command"
    /\ csv.concept = <<>> /\ csv.relationship = <<>> /\ csv.ancestor = <<>>
    /\ Len(Named(bulk.command, "--relationships")) = 4

\* the key of a label set: its labels sorted and joined by ':'
LabelSetKey(L) == join(<<":">>, sorted(CHOOSE l \in LabelLists(L) : TRUE))

\* the label sets that occur in the graph
LabelSets(ns) == {ns[i].labels : i \in 1..Len(ns)} \ {{}}

\* C19: get_node_counts returns one key per distinct label set of the graph,
\* the labels sorted and joined by ':', and its value is the number of nodes
\* that have exactly that label set, also when the store lists the labels of
\* two such nodes in different orders
C19_NodeCountsPerLabelSet ==
    report.op = "get_node_counts" =>
        /\ DOMAIN report.result.items = {LabelSetKey(L) : L \in LabelSets(nodes)}
        /\ \A L \in LabelSets(nodes) :
               report.result.items[LabelSetKey(L)] =
                   Cardinality({i \in 1..Len(nodes) : nodes[i].labels = L})

\* C20: on an empty graph get_node_counts and get_relationship_counts return
\* an empty mapping and verify_sample_concept returns None, whatever the
\* concept id asked for
C20_EmptyGraphReports ==
    (report.op # "none" /\ nodes = <<>> /\ edges = EmptyBag) =>
        IF report.op = "verify_sample_concept"
        THEN report.result = None
        ELSE report.result.type = "dict" /\ DOMAIN report.result.items = {}

\* the relationship counts asked for on a graph that a finished load left empty
C20_Witness ==
    /\ report.op = "get_relationship_counts"
    /\ nodes = <<>> /\ edges = EmptyBag
    /\ Len(hist.done) = 1 /\ hist.done[1].op = "run_load_csv"
    /\ hist.done[1].failed = "none"

\* the header of a chunked output file
HeaderOf(f) ==
    IF f = "nodes_concept.csv" THEN <<ColId, ColStandardConcept, ColLabel>>
    ELSE <<ColStartId, ColEndId, ColType>>

\* the data rows of a chunked output file, in the order of its source file
RowsInSourceOrder(f) ==
    CASE f = "nodes_concept.csv" ->
             [i \in 1..Len(csv.concept) |->
                 <<csv.concept[i].concept_id, csv.concept[i].standard_concept,
                   LabelField(csv.concept[i])>>]
      [] f = "rels_in_domain.csv" ->
             [i \in 1..Len(csv.concept) |->
                 <<csv.concept[i].concept_id, csv.concept[i].domain_id, TInDomain>>]
      [] f = "rels_from_vocabulary.csv" ->
             [i \in 1..Len(csv.concept) |->
                 <<csv.concept[i].concept_id, csv.concept[i].vocabulary_id,
                   TFromVocabulary>>]
      [] f = "rels_semantic.csv" ->
             [i \in 1..Len(csv.relationship) |->
                 <<csv.relationship[i].concept_id_1, csv.relationship[i].concept_id_2,
                   standardize_reltype(PyStr(csv.relationship[i].relationship_id))>>]
      [] f = "rels_ancestor.csv" ->
             [i \in 1..Len(csv.ancestor) |->
                 <<csv.ancestor[i].descendant_concept_id,
                   csv.ancestor[i].ancestor_concept_id, THasAncestor>>]

ChunkedFiles ==
    {"nodes_concept.csv", "rels_in_domain.csv", "rels_from_vocabulary.csv",
     "rels_semantic.csv", "rels_ancestor.csv"}

\* C23: after one call into the empty import directory each chunked output
\* file starts with its header, holds the header nowhere else, and lists its
\* data rows in source order; the content does not depend on the chunk size
C23_OneHeaderSourceOrder ==
    (bulk.calls = 1 /\ bulk.result = "command")
    => \A f \in ChunkedFiles :
           /\ files[f].exists
           /\ files[f].lines[1] = HeaderOf(f)
           /\ \A i \in 2..Len(files[f].lines) : files[f].lines[i] # HeaderOf(f)
           /\ Tail(files[f].lines) = RowsInSourceOrder(f)

\* two concept rows of different ids were written in chunks of one
C23_Witness ==
    /\ bulk.calls = 1
    /\ bulk.result = "command"
    /\ bulk.chunk_size = 1
    /\ Len(csv.concept) = 2
    /\ csv.concept[1].concept_id # csv.concept[2].concept_id
    /\ Len(files["nodes_concept.csv"].lines) = 3

\* the cell of data row i of file f under the column named col
Cell(f, i, col) == files[f].lines[i + 1][Column(files[f].lines[1], col)]

\* C24: for each concept row the IN_DOMAIN row starts at the row's concept_id
\* and ends at its domain_id as the source spells it, and the FROM_VOCABULARY
\* row starts at the concept_id and ends at the row's vocabulary_id
C24_EdgeValuesUnchanged ==
    (bulk.calls = 1 /\ bulk.result = "command")
    => \A i \in 1..Len(csv.concept) :
           /\ Cell("rels_in_domain.csv", i, ColStartId) = csv.concept[i].concept_id
           /\ Cell("rels_in_domain.csv", i, ColEndId) = csv.concept[i].domain_id
           /\ Cell("rels_from_vocabulary.csv", i, ColStartId) = csv.concept[i].concept_id
           /\ Cell("rels_from_vocabulary.csv", i, ColEndId) = csv.concept[i].vocabulary_id

\* a concept of domain Drug/Device: its label says DrugDevice, its edge row
\* ends at Drug/Device
C24_Witness ==
    /\ bulk.calls = 1
    /\ bulk.result = "command"
    /\ Len(csv.concept) >= 1
    /\ csv.concept[1].domain_id = DrugDevice
    /\ Cell("nodes_concept.csv", 1, ColLabel)
           = TConcept \o <<";","D","r","u","g","D","e","v","i","c","e">>
    /\ Cell("rels_in_domain.csv", 1, ColEndId) = DrugDevice

\* C25: a call of prepare_for_bulk_import made while one of the five source
\* files is missing and another CSV file is there leaves the import
\* directory as it was: no generated file removed, none written
C25_MissingFileNoWork ==
    [][(/\ csv.present # {}
        /\ ~(CsvFiles \subseteq csv.present)
        /\ bulk'.calls = bulk.calls + 1)
       => files' = files]_vars

\* C27: after a successful run_load_csv every concept row has its Concept
\* node, and the node has a FROM_VOCABULARY edge whenever a Vocabulary node
\* with its vocabulary_id exists, with or without a Domain node of its
\* domain_id
C27_VocabularyEdgeWithoutDomain ==
    (call.op = "run_load_csv" /\ call.outcome = "returned")
    => /\ \A i \in 1..Len(csv.concept) :
              MatchConcept(nodes, toInteger(csv.concept[i].concept_id)) # {}
       /\ \A c \in NodesOf(nodes, TConcept) :
              MatchVocabulary(nodes, nodes[c].vocabulary_id) # {}
              => OutEdges(edges, TFromVocabulary, c) >= 1

NodeFiles == {"nodes_domain.csv", "nodes_vocabulary.csv", "nodes_concept.csv"}

\* the source ids are unique within each node kind, and none of them is
\* spelled like a missing value
SourceIdsUnique ==
    /\ \A i, j \in 1..Len(csv.domain) :
           csv.domain[i].domain_id = csv.domain[j].domain_id => i = j
    /\ \A i, j \in 1..Len(csv.vocabulary) :
           csv.vocabulary[i].vocabulary_id = csv.vocabulary[j].vocabulary_id => i = j
    /\ \A i, j \in 1..Len(csv.concept) :
           csv.concept[i].concept_id = csv.concept[j].concept_id => i = j
    /\ \A i \in 1..Len(csv.domain) : csv.domain[i].domain_id \notin NaValues
    /\ \A i \in 1..Len(csv.vocabulary) : csv.vocabulary[i].vocabulary_id \notin NaValues

\* C26: with source ids unique within each node kind, no two node rows of
\* different node files carry the same :ID, so an :END_ID names one node
C26_OneNodePerId ==
    (bulk.calls = 1 /\ bulk.result = "command" /\ SourceIdsUnique)
    => \A f, g \in NodeFiles :
           f # g =>
               \A i \in 1..Len(DataRows(f)), j \in 1..Len(DataRows(g)) :
                   Cell(f, i, ColId) # Cell(g, j, ColId)

\* C28: the :ID of every row of nodes_domain.csv and nodes_vocabulary.csv is
\* the source id, character for character, also for an id spelled like a
\* missing value, and so equals the :END_ID of the concept rows that name it
C28_MetadataIdVerbatim ==
    (bulk.calls = 1 /\ bulk.result = "command")
    => /\ \A i \in 1..Len(csv.domain) :
              Cell("nodes_domain.csv", i, ColId) = csv.domain[i].domain_id
       /\ \A i \in 1..Len(csv.vocabulary) :
              Cell("nodes_vocabulary.csv", i, ColId) = csv.vocabulary[i].vocabulary_id
       /\ \A i \in 1..Len(csv.concept), j \in 1..Len(csv.domain) :
              csv.concept[i].domain_id = csv.domain[j].domain_id
              => Cell("rels_in_domain.csv", i, ColEndId)
                     = Cell("nodes_domain.csv", j, ColId)
       /\ \A i \in 1..Len(csv.concept), j \in 1..Len(csv.vocabulary) :
              csv.concept[i].vocabulary_id = csv.vocabulary[j].vocabulary_id
              => Cell("rels_from_vocabulary.csv", i, ColEndId)
                     = Cell("nodes_vocabulary.csv", j, ColId)

\* C30: verify_sample_concept returns a record for every concept id whose
\* Concept node exists, the id 0 included, and None only when no node has
\* the id; the record counts every outgoing edge per type and every
\* HAS_ANCESTOR edge that comes in from a Concept
C30_SampleFound ==
    report.op = "verify_sample_concept" =>
        LET found == MatchConcept(nodes, report.arg.int)
        IN  /\ report.result = None <=> found = {}
            /\ report.result # None =>
                   \E c \in found :
                       /\ \A t \in {TInDomain, TFromVocabulary, THasAncestor} :
                              OutEdges(edges, t, c) > 0
                              => report.result.items.relationships_summary[t]
                                     = OutEdges(edges, t, c)
                       /\ report.result.items.ancestors_summary =
                              BagSum(edges, {e \in DOMAIN edges :
                                                /\ e.type = THasAncestor /\ e.end = c
                                                /\ TConcept \in nodes[e.start].labels})

\* C21: run_validation always returns: when a step raised, the mapping has
\* the single key error with the exception's message, and otherwise it has
\* exactly the three report keys
C21_ValidationNeverRaises ==
    report.op = "run_validation" =>
        /\ report.outcome = "returned"
        /\ report.result.type = "dict"
        /\ IF report.fault = "none"
           THEN DOMAIN report.result.items =
                    {"node_counts_by_label_combination",
                     "relationship_counts_by_type",
                     "sample_concept_verification"}
           ELSE /\ DOMAIN report.result.items = {"error"}
                /\ report.result.items.error = Message(report.fault)

\* the relationship counts raised on a graph that holds nodes, after the
\* node counts had been taken
C21_Witness ==
    /\ report.op = "run_validation"
    /\ report.fault = "get_relationship_counts"
    /\ nodes # <<>>
    /\ DOMAIN report.result.items = {"error"}

\* the DROP statements clear_database makes of what the SHOW statements list
DropsOf(shown) ==
    [i \in 1..Len(shown.constraints) |->
        Statement("DROP CONSTRAINT", shown.constraints[i])]
    \o [i \in 1..Len(shown.indexes) |-> Statement("DROP INDEX", shown.indexes[i])]

\* C22: clear_database issues every DROP CONSTRAINT and every DROP INDEX
\* statement in turn, whichever of them fail, and then the delete; it raises
\* exactly when the delete fails, and after it returned the graph holds no
\* node and no relationship
C22_ClearDropsAllThenDeletes ==
    (call.op = "clear_db" /\ call.failed # "SHOW CONSTRAINTS")
    => /\ call.issued = DropsOf(call.shown) \o <<DetachDelete>>
       /\ call.outcome = "raised" <=> call.failed = DetachDelete.verb
       /\ call.outcome = "returned" => nodes = <<>> /\ edges = EmptyBag

\* a clear of a loaded graph with its three constraints: the drops of the
\* three indexes behind them failed, the two other indexes were dropped
C22_Witness ==
    /\ call.op = "clear_db"
    /\ call.outcome = "returned"
    /\ Len(call.shown.constraints) = 3
    /\ Len(call.ignored) = 3
    /\ Len(call.issued) = 9
    /\ Len(hist.done) = 2
    /\ hist.done[1].counts.nodes # {}
    /\ constraints = {} /\ indexes = {}

\* C29: no operation that opened a driver ends with the driver open
C29_DriverClosed ==
    /\ (pc = "idle" /\ call.op \in {"run_load_csv", "clear_db", "create_indexes"})
       => call.driver # "open"
    /\ report.op = "run_validation" => report.driver # "open"

====
